---- MODULE Spec2Model ----
(***************************************************************************)
(* A model of FlavorSwitcher (src/src/flavor-switcher.ts): the file-swap   *)
(* engine that backs up mapping targets, applies a flavor, restores the    *)
(* originals, and keeps the ledger file and .gitignore in step.            *)
(*                                                                         *)
(* The filesystem is modelled by value: a path holds nothing, a file with  *)
(* a content, or a (flat) directory of named files.  Every filesystem or   *)
(* ledger write of switchFlavor / resetFlavor is one step of the model, so *)
(* the states between two writes are states of the model.                  *)
(***************************************************************************)
EXTENDS Integers, Sequences, FiniteSets, TLC

VARIABLES
    config,         \* this.config: the loaded configuration
    configFile,     \* CONFIG_FILE on disk
    flavorsRoot,    \* whether FLAVORS_DIR exists on disk
    flavorsDir,     \* flavors/<id>/...: the flavor directories on disk
    targets,        \* the project's mapping targets on disk
    backupRoot,     \* whether BACKUP_DIR exists on disk
    backup,         \* BACKUP_DIR/<target>: the backup entries on disk
    ledgerFile,     \* STATE_FILE on disk
    gitignore,      \* .gitignore on disk
    state,          \* this.state: the in-memory ledger
    currentFlavor,  \* this.currentFlavor
    pc,             \* position of the running instance
    op,             \* the command in progress
    arg,            \* flavorName of the switchFlavor in progress
    idx,            \* loop index of the for-loop in progress
    backups,        \* the local `backups` of backupOriginalFiles
    report,         \* what the last command reported to the operator
    errors,         \* the problems listed by the last structure validation
    modified,       \* the targets the last status or validate flagged
    failedAt,       \* history: the step at which the last command threw
    trail,          \* history: the commands that got past their checks
    baseline,       \* history: the targets before any flavor was applied
    snap            \* history: the disk when the last command began

given == <<configFile, flavorsRoot, flavorsDir>>
env   == <<config, given>>
disk  == <<targets, backupRoot, backup, ledgerFile, gitignore>>
mem   == <<state, currentFlavor>>
ctl   == <<pc, op, arg, idx, backups>>
ghost == <<report, errors, modified, failedAt, trail, baseline, snap>>
vars  == <<env, disk, mem, ctl, ghost>>

-----------------------------------------------------------------------------
(* Bounds of the model *)

\* commands (past their precondition checks) in one behaviour
MaxOps == 3

\* characters of the .gitignore that updateGitignore is first run on
MaxText == 4

\* runs of updateGitignore in one behaviour
MaxSyncs == 3

\* calls of getFileHash in one behaviour
MaxHashes == 2

-----------------------------------------------------------------------------
(* Files and directories by value *)

Null == "null"
Undefined == "undefined"
None == "-"

FlavorIds == {"a", "b", "c"}
Requested == FlavorIds \cup {"x"}
Content   == {"o", "a", "b", "c", "u"}
Kids      == {"x", "y", "z"}
Targets   == {"t1", "t2"}
Paths     == {"s1", "s2", "d1"}

NoKids == [k \in Kids |-> None]

Absent  == [kind |-> "absent", data |-> None, kids |-> NoKids]
File(c) == [kind |-> "file", data |-> c, kids |-> NoKids]
Dir(ks) == [kind |-> "dir", data |-> None, kids |-> ks]

pathExists(n) == n.kind # "absent"

\* fs.copy refuses to put a file over a directory or a directory over a file
copyFails(src, dst) ==
    \/ src.kind = "file" /\ dst.kind = "dir"
    \/ src.kind = "dir" /\ dst.kind = "file"

\* mutant of copy: an existing destination is left as it is
copyWithoutOverwrite(src, dst) ==
    IF pathExists(dst) THEN dst
    ELSE IF src.kind = "file" THEN File(src.data)
    ELSE Dir(src.kids)

\* fs.copy(src, dst, {overwrite: true}): a file replaces the destination; a
\* directory is copied entry by entry into the destination directory, whose
\* other entries stay
copy(src, dst) ==
    IF src.kind = "file"
    THEN File(src.data)
    ELSE Dir([k \in Kids |->
                IF src.kids[k] # None THEN src.kids[k]
                ELSE IF dst.kind = "dir" THEN dst.kids[k] ELSE None])

\* fs.unlink fails on a directory
unlinkFails(n) == n.kind = "dir"

Sha256(c) == CASE c = "o" -> "h_o" [] c = "a" -> "h_a" [] c = "b" -> "h_b"
               [] c = "c" -> "h_c" [] c = "u" -> "h_u"

\* mutant of getFileHash: a directory is hashed like a file
getFileHashOfDirectory(n) ==
    IF ~pathExists(n) THEN Null
    ELSE IF n.kind = "dir" THEN "h_dir"
    ELSE Sha256(n.data)

getFileHash(n) ==
    IF ~pathExists(n) THEN Null
    ELSE IF n.kind = "dir" THEN Null
    ELSE Sha256(n.data)

-----------------------------------------------------------------------------
(* The ledger *)

EmptyState == [currentFlavor |-> Null, originalFiles |-> <<>>]

NoLedger == [exists |-> FALSE, readable |-> FALSE, content |-> EmptyState]

\* a ledger file that fs.readJson cannot parse
CorruptLedger ==
    [exists |-> TRUE, readable |-> FALSE,
     content |-> [currentFlavor |-> "garbage", originalFiles |-> <<>>]]

\* JSON.stringify of a FileInfo: a key whose value is undefined is left out
stringifyInfo(info) ==
    IF info.hash = Undefined
    THEN [target |-> info.target, exists |-> info.exists, type |-> info.type]
    ELSE info

RECURSIVE stringifyInfos(_)
stringifyInfos(infos) ==
    IF infos = <<>> THEN <<>>
    ELSE <<stringifyInfo(Head(infos))>> \o stringifyInfos(Tail(infos))

\* mutant of stringify: the FileInfo records are not written
stringifyWithoutFiles(s) == [currentFlavor |-> s.currentFlavor, originalFiles |-> <<>>]

\* the JSON text of a State
stringify(s) ==
    [currentFlavor |-> s.currentFlavor, originalFiles |-> stringifyInfos(s.originalFiles)]

\* a FileInfo read back: a key the text does not hold reads as undefined
parseInfo(json) ==
    IF "hash" \in DOMAIN json THEN json
    ELSE [target |-> json.target, hash |-> Undefined,
          exists |-> json.exists, type |-> json.type]

RECURSIVE parseInfos(_)
parseInfos(jsons) ==
    IF jsons = <<>> THEN <<>>
    ELSE <<parseInfo(Head(jsons))>> \o parseInfos(Tail(jsons))

\* fs.readJson(statePath) as State
readJson(json) ==
    [currentFlavor |-> json.currentFlavor, originalFiles |-> parseInfos(json.originalFiles)]

\* fs.writeJson(statePath, this.state)
writeJson(s) == [exists |-> TRUE, readable |-> TRUE, content |-> stringify(s)]

\* mutant of FileInfoOf: the record says the target existed whether it did or not
FileInfoAlwaysExists(mapping, node) ==
    [target |-> mapping.target,
     hash |-> IF getFileHash(node) = Null THEN Undefined ELSE getFileHash(node),
     exists |-> TRUE, type |-> mapping.type]

\* hash || undefined
orUndefined(hash) == IF hash = Null THEN Undefined ELSE hash

\* the FileInfo backupOriginalFiles records for a mapping target
FileInfoOf(mapping, node) ==
    IF pathExists(node)
    THEN [target |-> mapping.target, hash |-> orUndefined(getFileHash(node)),
          exists |-> TRUE, type |-> mapping.type]
    ELSE [target |-> mapping.target, hash |-> Undefined,
          exists |-> FALSE, type |-> mapping.type]

-----------------------------------------------------------------------------
(* .gitignore as a sequence of tokens: "u" is a character of the user's    *)
(* own text, "NL" a newline, "M" the marker line's text, "S" STATE_FILE,   *)
(* "B" BACKUP_DIR followed by "/", and a target's name its path.           *)

NoFile == [exists |-> FALSE, text |-> <<>>]

Whitespace == {"NL", "SP"}

RECURSIVE indexOf(_, _, _)
indexOf(s, tok, from) ==
    IF from > Len(s) THEN 0
    ELSE IF s[from] = tok THEN from
    ELSE indexOf(s, tok, from + 1)

RECURSIVE trimEnd(_)
trimEnd(s) ==
    IF s = <<>> THEN s
    ELSE IF s[Len(s)] \in Whitespace THEN trimEnd(SubSeq(s, 1, Len(s) - 1))
    ELSE s

RECURSIVE join(_)
join(ps) ==
    IF ps = <<>> THEN <<>>
    ELSE IF Len(ps) = 1 THEN Head(ps)
    ELSE Head(ps) \o <<"NL">> \o join(Tail(ps))

\* mutant of targetPatterns: no target is listed
noTargetPatterns(ms) == <<>>

RECURSIVE targetPatterns(_)
targetPatterns(ms) ==
    IF ms = <<>> THEN <<>>
    ELSE << <<Head(ms).target>> >> \o targetPatterns(Tail(ms))

\* the `patterns` of updateGitignore
patterns(cur, cfg) ==
    << <<>>, <<"M">>, <<"S">>, <<"B">> >>
    \o (IF cur # Null THEN targetPatterns(cfg.mappings) ELSE <<>>)

\* mutant of updateGitignoreText: the block is appended to the whole file
appendBlock(file, cur, cfg) ==
    (IF file.exists THEN file.text ELSE <<>>) \o <<"NL">> \o join(patterns(cur, cfg))

\* mutant of updateGitignoreText: the file is rewritten as the block alone
blockOnly(file, cur, cfg) == <<"NL">> \o join(patterns(cur, cfg))

\* the new .gitignore text of updateGitignore
updateGitignoreText(file, cur, cfg) ==
    LET content  == IF file.exists THEN file.text ELSE <<>>
        marker   == indexOf(content, "M", 1)
        kept     == IF marker # 0
                    THEN trimEnd(SubSeq(content, 1, marker - 1))
                    ELSE content
    IN  kept \o <<"NL">> \o join(patterns(cur, cfg))

updateGitignore(file, cur, cfg) ==
    [exists |-> TRUE, text |-> updateGitignoreText(file, cur, cfg)]

-----------------------------------------------------------------------------
(* Configuration and flavor directories *)

Mapping(s, t, ty, req) ==
    [source |-> s, target |-> t, type |-> ty, required |-> req]

\* the configurations of the model: two mappings, the first required, the
\* second optional, each declared "file" or "directory"; flavor c is inactive
Configs ==
    { [version |-> "1.0.0", projectRoot |-> "./",
       flavors |-> [f \in FlavorIds |-> [displayName |-> "name", active |-> (f # "c")]],
       mappings |-> << Mapping("s1", "t1", ty1, TRUE),
                       Mapping("s2", "t2", ty2, FALSE) >>,
       requiredStructure |-> [files |-> <<"s1">>, directories |-> <<"d1">>]]
      : ty1 \in {"file", "directory"}, ty2 \in {"file", "directory"} }

\* a directory as the project holds it, and as flavor f ships it
OriginalDir  == Dir([k \in Kids |-> IF k \in {"x", "y"} THEN "o" ELSE None])
FlavorDir(f) == Dir([k \in Kids |-> IF k \in {"y", "z"} THEN f ELSE None])
EmptyDir     == Dir(NoKids)

Layout(root, s1, s2, d1) ==
    [root |-> root,
     files |-> [p \in Paths |-> CASE p = "s1" -> s1 [] p = "s2" -> s2 [] p = "d1" -> d1]]

NoFlavorDir == Layout(FALSE, Absent, Absent, Absent)

\* flavor f with a file for every source
CompleteLayout(f) == Layout(TRUE, File(f), File(f), EmptyDir)

\* the layouts flavor f may have on disk
Layouts(f) ==
    { Layout(TRUE, s1, s2, EmptyDir)
        : s1 \in {File(f), FlavorDir(f)}, s2 \in {Absent, File(f), FlavorDir(f)} }
    \cup { Layout(TRUE, Absent, File(f), EmptyDir),
           Layout(TRUE, File(f), Absent, Absent),
           NoFlavorDir }

ValidLayouts(f) == { l \in Layouts(f) : l.root /\ pathExists(l.files["s1"])
                                        /\ pathExists(l.files["d1"]) }

TargetInit == {Absent, File("o"), OriginalDir}

GitignoreInit == {NoFile, [exists |-> TRUE, text |-> <<"u", "NL">>]}

\* mutant of missing: the check stops at the first path that is absent
missingFirst(kind, paths, files) ==
    LET absent == { i \in 1..Len(paths) : ~pathExists(files[paths[i]]) }
    IN  IF absent = {} THEN <<>>
        ELSE << <<kind, paths[CHOOSE i \in absent : \A j \in absent : i <= j]>> >>

RECURSIVE missing(_, _, _)
missing(kind, paths, files) ==
    IF paths = <<>> THEN <<>>
    ELSE (IF pathExists(files[Head(paths)]) THEN <<>> ELSE << <<kind, Head(paths)>> >>)
         \o missing(kind, Tail(paths), files)

RECURSIVE requiredSources(_)
requiredSources(ms) ==
    IF ms = <<>> THEN <<>>
    ELSE (IF Head(ms).required THEN <<Head(ms).source>> ELSE <<>>)
         \o requiredSources(Tail(ms))

\* the `errors` validateFlavorStructure collects for a flavor whose root exists
structureErrors(cfg, fl) ==
    missing("Missing required file", cfg.requiredStructure.files, fl.files)
    \o missing("Missing required directory", cfg.requiredStructure.directories, fl.files)
    \o missing("Missing required mapping source", requiredSources(cfg.mappings), fl.files)

\* the lines of the Error validateFlavorStructure throws
validationFailure(cfg, fl) ==
    IF ~fl.root THEN << <<"Flavor directory does not exist", "root">> >>
    ELSE structureErrors(cfg, fl)

\* mutant of validateFlavorStructure: only the flavor's root is looked at
validateRootOnly(cfg, fl) == fl.root

\* validateFlavorStructure returns true
validateFlavorStructure(cfg, fl) == fl.root /\ structureErrors(cfg, fl) = <<>>

-----------------------------------------------------------------------------
(* CONFIG_FILE and configSchema.  A JSON object is a record with the set   *)
(* `given` of the keys the file spells out; a key that is not given holds  *)
(* a placeholder that is never the schema's default.                       *)

NoConfig == "null"

FlavorKeys    == {"displayName", "active"}
MappingKeys   == {"source", "target", "type", "required"}
StructureKeys == {"files", "directories"}
ConfigKeys    == {"version", "projectRoot", "flavors", "mappings", "requiredStructure"}

RawFlavor(keys, active) ==
    [given |-> keys, displayName |-> "name",
     active |-> IF "active" \in keys THEN active ELSE FALSE]

RawMapping(keys, ty, req) ==
    [given |-> keys, source |-> "s1", target |-> "t1",
     type |-> IF "type" \in keys THEN ty ELSE None,
     required |-> IF "required" \in keys THEN req ELSE FALSE]

RawStructure(keys) ==
    [given |-> keys,
     files |-> IF "files" \in keys THEN <<"s1">> ELSE <<None>>,
     directories |-> IF "directories" \in keys THEN <<"d1">> ELSE <<None>>]

RawFlavors ==
    { RawFlavor(g, a) : g \in SUBSET FlavorKeys, a \in BOOLEAN }

RawMappings ==
    { RawMapping(g, ty, r) : g \in SUBSET MappingKeys,
                             ty \in {"file", "directory", "link"}, r \in BOOLEAN }

RawStructures == { RawStructure(g) : g \in SUBSET StructureKeys }

\* the JSON objects CONFIG_FILE may hold
RawConfigs ==
    { [given |-> g, version |-> "1.0.0",
       projectRoot |-> IF "projectRoot" \in g THEN "app" ELSE None,
       flavors |-> [f \in FlavorIds |-> fl],
       mappings |-> ms,
       requiredStructure |-> rs]
      : g \in SUBSET ConfigKeys, fl \in RawFlavors,
        ms \in {<<>>} \cup { <<m>> : m \in RawMappings }, rs \in RawStructures }

\* version: required; flavors: required, each with a displayName;
\* mappings: required, each with source, target and a valid type
schemaError(raw) ==
    \/ "version" \notin raw.given
    \/ "flavors" \notin raw.given
    \/ "mappings" \notin raw.given
    \/ \E f \in DOMAIN raw.flavors : "displayName" \notin raw.flavors[f].given
    \/ \E i \in 1..Len(raw.mappings) :
          \/ "source" \notin raw.mappings[i].given
          \/ "target" \notin raw.mappings[i].given
          \/ "type" \in raw.mappings[i].given
             /\ raw.mappings[i].type \notin {"file", "directory"}

\* active: Joi.boolean().default(true)
validatedFlavor(fl) ==
    [displayName |-> fl.displayName,
     active |-> IF "active" \in fl.given THEN fl.active ELSE TRUE]

\* mutant of validatedMapping: a mapping is optional unless it says otherwise
validatedMappingOptional(m) ==
    Mapping(m.source, m.target,
            IF "type" \in m.given THEN m.type ELSE "file",
            IF "required" \in m.given THEN m.required ELSE FALSE)

\* type: default('file'); required: default(true)
validatedMapping(m) ==
    Mapping(m.source, m.target,
            IF "type" \in m.given THEN m.type ELSE "file",
            IF "required" \in m.given THEN m.required ELSE TRUE)

\* requiredStructure: default({files: [], directories: []}), and each of
\* its keys default([])
validatedStructure(present, rs) ==
    [files |-> IF present /\ "files" \in rs.given THEN rs.files ELSE <<>>,
     directories |-> IF present /\ "directories" \in rs.given THEN rs.directories ELSE <<>>]

\* the `value` of configSchema.validate for a JSON object without error
validated(raw) ==
    [version |-> raw.version,
     projectRoot |-> IF "projectRoot" \in raw.given THEN raw.projectRoot ELSE "./",
     flavors |-> [f \in DOMAIN raw.flavors |-> validatedFlavor(raw.flavors[f])],
     mappings |-> [i \in 1..Len(raw.mappings) |-> validatedMapping(raw.mappings[i])],
     requiredStructure |-> validatedStructure("requiredStructure" \in raw.given,
                                              raw.requiredStructure)]

\* CONFIG_FILE as fs.writeJson writes a configuration with every key
ConfigFileOf(c) ==
    [exists |-> TRUE, parses |-> TRUE,
     data |-> [given |-> ConfigKeys, version |-> c.version, projectRoot |-> c.projectRoot,
               flavors |-> [f \in DOMAIN c.flavors |->
                              [given |-> FlavorKeys,
                               displayName |-> c.flavors[f].displayName,
                               active |-> c.flavors[f].active]],
               mappings |-> [i \in 1..Len(c.mappings) |->
                               [given |-> MappingKeys,
                                source |-> c.mappings[i].source,
                                target |-> c.mappings[i].target,
                                type |-> c.mappings[i].type,
                                required |-> c.mappings[i].required]],
               requiredStructure |-> [given |-> StructureKeys,
                                      files |-> c.requiredStructure.files,
                                      directories |-> c.requiredStructure.directories]]]

\* the states CONFIG_FILE may be in: absent, not JSON, or a JSON object
ConfigFiles ==
    { [exists |-> e, parses |-> FALSE, data |-> ConfigFileOf(c).data]
      : e \in BOOLEAN, c \in Configs }
    \cup { [exists |-> TRUE, parses |-> TRUE, data |-> raw] : raw \in RawConfigs }

-----------------------------------------------------------------------------
(* The state after construction *)

NoBackups == [t \in Targets |-> Absent]

Disk == [targets |-> targets, backupRoot |-> backupRoot, backup |-> backup,
         ledgerFile |-> ledgerFile, gitignore |-> gitignore]

Init ==
    /\ config = NoConfig
    /\ configFile \in { ConfigFileOf(c) : c \in Configs }
    /\ flavorsRoot = TRUE
    /\ flavorsDir \in { [f \in FlavorIds |-> CASE f = "a" -> la [] f = "b" -> lb
                                               [] OTHER -> CompleteLayout(f)]
                        : la \in ValidLayouts("a"), lb \in Layouts("b") }
    /\ targets \in [Targets -> TargetInit]
    /\ backupRoot = FALSE
    /\ backup = NoBackups
    /\ ledgerFile = NoLedger
    /\ gitignore \in GitignoreInit
    /\ state = EmptyState
    /\ currentFlavor = Null
    /\ pc = "new"
    /\ op = "none"
    /\ arg = Null
    /\ idx = 0
    /\ backups = <<>>
    /\ report = "none"
    /\ errors = <<>>
    /\ modified = {}
    /\ failedAt = "none"
    /\ trail = <<>>
    /\ baseline = targets
    /\ snap = [targets |-> targets, backupRoot |-> FALSE, backup |-> NoBackups,
               ledgerFile |-> NoLedger, gitignore |-> gitignore]

-----------------------------------------------------------------------------
(* init(): loadConfig and loadState of a fresh instance *)

\* mutant of loadConfigFails: only the schema is checked
loadConfigFailsOnSchemaOnly(file) == schemaError(file.data)

\* loadConfig throws: no file, no JSON in it, or Joi reports an error
loadConfigFails(file) == ~file.exists \/ ~file.parses \/ schemaError(file.data)

\* mutant of loadState: whatever the file holds is taken as the ledger
loadStateUnguarded(file) == IF file.exists THEN readJson(file.content) ELSE EmptyState

\* loadState: this.state afterwards
loadState(file) ==
    IF file.exists /\ file.readable THEN readJson(file.content) ELSE EmptyState

\* loadState warns that it could not load the state file
loadStateWarns(file) == file.exists /\ ~file.readable

\* loadState: this.currentFlavor afterwards; it is assigned only when the
\* ledger file was read
loadedFlavor(file, cur) ==
    IF file.exists /\ file.readable THEN loadState(file).currentFlavor ELSE cur

\* init() on an instance whose currentFlavor field holds cur
initFrom(cur) ==
    /\ op' = "none"
    /\ arg' = Null
    /\ idx' = 0
    /\ backups' = <<>>
    /\ errors' = <<>>
    /\ modified' = {}
    /\ failedAt' = "none"
    /\ IF loadConfigFails(configFile)
       THEN /\ pc' = "exited"
            /\ report' = "InitializationFailed"
            /\ config' = NoConfig
            /\ state' = EmptyState
            /\ currentFlavor' = Null
       ELSE /\ pc' = "ready"
            /\ config' = validated(configFile.data)
            /\ state' = loadState(ledgerFile)
            /\ currentFlavor' = loadedFlavor(ledgerFile, cur)
            /\ report' = IF loadStateWarns(ledgerFile) THEN "stateWarning" ELSE "none"
    /\ UNCHANGED <<given, disk, trail, baseline, snap>>

\* init() on a fresh instance: private currentFlavor: string | null = null
init ==
    /\ pc \in {"new", "exited"}
    /\ initFrom(Null)

-----------------------------------------------------------------------------
(* How a command ends *)

Entry(ok) == [op |-> op, flavor |-> arg, ok |-> ok]

\* the catch block: console.error and process.exit(1)
Throw(err) ==
    /\ pc' = "exited"
    /\ report' = err
    /\ failedAt' = pc
    /\ trail' = Append(trail, Entry(FALSE))
    /\ UNCHANGED <<op, arg, idx, backups, errors, modified, baseline, snap>>

\* the command returns normally
Return(msg) ==
    /\ pc' = "ready"
    /\ report' = msg
    /\ trail' = Append(trail, Entry(TRUE))
    /\ UNCHANGED <<op, arg, idx, backups, errors, modified, failedAt, baseline, snap>>

\* a command is called on an initialised instance
Call(o, f) ==
    /\ pc = "ready" \/ (pc = "confirmed" /\ o = "switch" /\ f = arg)
    /\ op' = o
    /\ arg' = f
    /\ snap' = Disk
    /\ UNCHANGED <<baseline>>

\* the command fails, or returns, before it changes anything
RefuseWith(nextPc, msg, errs) ==
    /\ pc' = nextPc
    /\ report' = msg
    /\ errors' = errs
    /\ UNCHANGED <<env, disk, mem, idx, backups, modified, failedAt, trail>>

Refuse(nextPc, msg) == RefuseWith(nextPc, msg, <<>>)

-----------------------------------------------------------------------------
(* switchFlavor: the checks *)

\* this.config.flavors[flavorName] is defined
isConfigured(cfg, f) == f \in DOMAIN cfg.flavors

\* mutant of isActive: the active flag is not looked at
isActiveIgnored(cfg, f) == TRUE

\* this.config.flavors[flavorName].active
isActive(cfg, f) == cfg.flavors[f].active

switchNotConfigured(f) ==
    /\ Call("switch", f)
    /\ ~isConfigured(config, f)
    /\ Refuse("exited", "NotConfigured")

switchInactive(f) ==
    /\ Call("switch", f)
    /\ isConfigured(config, f)
    /\ ~isActive(config, f)
    /\ Refuse("exited", "Inactive")

switchStructureInvalid(f) ==
    /\ Call("switch", f)
    /\ isConfigured(config, f)
    /\ isActive(config, f)
    /\ ~validateFlavorStructure(config, flavorsDir[f])
    /\ RefuseWith("exited", "StructureInvalid", validationFailure(config, flavorsDir[f]))

\* mutant of afterRestore: a switch captures backups again after the restore
afterRestoreRecapture(o) == IF o = "switch" THEN "backup" ELSE "resetSave"

\* where restoreOriginalFiles goes when it returns
afterRestore(o) == IF o = "switch" THEN "apply" ELSE "resetSave"

\* restoreOriginalFiles is entered: it returns at once on an empty originalFiles
enterRestore(o) ==
    IF Len(state.originalFiles) = 0 THEN afterRestore(o) ELSE "restore"

\* mutant of afterChecks: a first switch goes straight to applyFlavor
afterChecksNoBackup(cur) ==
    IF cur # Null THEN enterRestore("switch") ELSE "apply"

\* if (this.currentFlavor) restoreOriginalFiles;
\* if (!this.currentFlavor) backupOriginalFiles
afterChecks(cur) ==
    IF cur # Null THEN enterRestore("switch") ELSE "backup"

\* the checks pass: restore the previous flavor, or back up the originals
switchValidated(f) ==
    /\ Call("switch", f)
    /\ Len(trail) < MaxOps
    /\ isConfigured(config, f)
    /\ isActive(config, f)
    /\ validateFlavorStructure(config, flavorsDir[f])
    /\ pc' = afterChecks(currentFlavor)
    /\ idx' = 1
    /\ backups' = <<>>
    /\ report' = "running"
    /\ UNCHANGED <<env, disk, mem, errors, modified, failedAt, trail>>

-----------------------------------------------------------------------------
(* restoreOriginalFiles: one entry of state.originalFiles per step *)

Step(nextPc) ==
    /\ pc' = nextPc
    /\ UNCHANGED <<op, arg, backups, ghost>>

\* mutant of restoreAction: a recorded target whose backup is gone is removed
restoreActionStrict(info, targetNode, backupNode) ==
    IF info.exists
    THEN (IF pathExists(backupNode) THEN "copy"
          ELSE IF pathExists(targetNode) THEN "remove" ELSE "skip")
    ELSE IF pathExists(targetNode)
         THEN (IF info.type = "directory" THEN "remove" ELSE "unlink")
         ELSE "skip"

\* what the loop body does to the target of one FileInfo
restoreAction(info, targetNode, backupNode) ==
    IF info.exists /\ pathExists(backupNode) THEN "copy"
    ELSE IF ~info.exists /\ pathExists(targetNode)
         THEN (IF info.type = "directory" THEN "remove" ELSE "unlink")
         ELSE "skip"

restoreFails(info, targetNode, backupNode) ==
    LET act == restoreAction(info, targetNode, backupNode)
    IN  \/ act = "copy" /\ copyFails(backupNode, targetNode)
        \/ act = "unlink" /\ unlinkFails(targetNode)

restored(info, targetNode, backupNode) ==
    LET act == restoreAction(info, targetNode, backupNode)
    IN  CASE act = "copy" -> copy(backupNode, targetNode)
          [] act = "remove" -> Absent
          [] act = "unlink" -> Absent
          [] OTHER -> targetNode

restoreOriginalFiles ==
    /\ pc = "restore"
    /\ LET info == state.originalFiles[idx]
           t    == info.target
       IN  IF restoreFails(info, targets[t], backup[t])
           THEN /\ Throw("FileOpError")
                /\ UNCHANGED <<env, disk, mem>>
           ELSE /\ targets' = [targets EXCEPT ![t] = restored(info, targets[t], backup[t])]
                /\ idx' = IF idx < Len(state.originalFiles) THEN idx + 1 ELSE 1
                /\ Step(IF idx < Len(state.originalFiles) THEN "restore"
                        ELSE afterRestore(op))
                /\ UNCHANGED <<env, backupRoot, backup, ledgerFile, gitignore, mem>>

-----------------------------------------------------------------------------
(* backupOriginalFiles: one mapping per step, then the ledger write *)

backupOriginalFiles ==
    /\ pc = "backup"
    /\ LET mapping == config.mappings[idx]
           t       == mapping.target
           last    == idx = Len(config.mappings)
       IN  IF pathExists(targets[t])
           THEN /\ backupRoot' = TRUE
                /\ IF copyFails(targets[t], backup[t])
                   THEN /\ Throw("FileOpError")
                        /\ UNCHANGED <<env, targets, backup, ledgerFile, gitignore, mem>>
                   ELSE /\ backup' = [backup EXCEPT ![t] = copy(targets[t], backup[t])]
                        /\ backups' = Append(backups, FileInfoOf(mapping, targets[t]))
                        /\ idx' = IF last THEN 1 ELSE idx + 1
                        /\ pc' = IF last THEN "backupSave" ELSE "backup"
                        /\ UNCHANGED <<env, targets, ledgerFile, gitignore, mem,
                                       op, arg, ghost>>
           ELSE /\ backups' = Append(backups, FileInfoOf(mapping, targets[t]))
                /\ idx' = IF last THEN 1 ELSE idx + 1
                /\ pc' = IF last THEN "backupSave" ELSE "backup"
                /\ UNCHANGED <<env, disk, mem, op, arg, ghost>>

\* mutant of recordBackups: the requested flavor is recorded as current too
recordBackupsAndFlavor(s, b) == [s EXCEPT !.originalFiles = b, !.currentFlavor = arg]

\* this.state.originalFiles = backups
recordBackups(s, b) == [s EXCEPT !.originalFiles = b]

\* this.state.originalFiles = backups; await this.saveState()
backupSave ==
    /\ pc = "backupSave"
    /\ state' = recordBackups(state, backups)
    /\ ledgerFile' = writeJson(state')
    /\ idx' = 1
    /\ Step("apply")
    /\ UNCHANGED <<env, targets, backupRoot, backup, gitignore, currentFlavor>>

-----------------------------------------------------------------------------
(* applyFlavor: one mapping per step *)

applyFlavor ==
    /\ pc = "apply"
    /\ LET mapping == config.mappings[idx]
           t       == mapping.target
           source  == flavorsDir[arg].files[mapping.source]
           last    == idx = Len(config.mappings)
       IN  IF pathExists(source)
           THEN IF copyFails(source, targets[t])
                THEN /\ Throw("FileOpError")
                     /\ UNCHANGED <<env, disk, mem>>
                ELSE /\ targets' = [targets EXCEPT ![t] = copy(source, targets[t])]
                     /\ idx' = IF last THEN 1 ELSE idx + 1
                     /\ Step(IF last THEN "switchSave" ELSE "apply")
                     /\ UNCHANGED <<env, backupRoot, backup, ledgerFile, gitignore, mem>>
           ELSE IF mapping.required
                THEN /\ Throw("RequiredSourceMissing")
                     /\ UNCHANGED <<env, disk, mem>>
                ELSE /\ idx' = IF last THEN 1 ELSE idx + 1
                     /\ Step(IF last THEN "switchSave" ELSE "apply")
                     /\ UNCHANGED <<env, disk, mem>>

-----------------------------------------------------------------------------
(* switchFlavor: the ledger write and the .gitignore write *)

switchSave ==
    /\ pc = "switchSave"
    /\ state' = [state EXCEPT !.currentFlavor = arg]
    /\ currentFlavor' = arg
    /\ ledgerFile' = writeJson(state')
    /\ idx' = 1
    /\ Step("switchIgnore")
    /\ UNCHANGED <<env, targets, backupRoot, backup, gitignore>>

switchIgnore ==
    /\ pc = "switchIgnore"
    /\ gitignore' = updateGitignore(gitignore, currentFlavor, config)
    /\ Return("switched")
    /\ UNCHANGED <<env, targets, backupRoot, backup, ledgerFile, mem>>

-----------------------------------------------------------------------------
(* resetFlavor *)

\* mutant of nothingActive: resetFlavor never takes its early return
nothingActiveNever(cur) == FALSE

\* if (!this.currentFlavor)
nothingActive(cur) == cur = Null

resetNothing ==
    /\ Call("reset", Null)
    /\ nothingActive(currentFlavor)
    /\ Refuse("ready", "nothingActive")

resetBegin ==
    /\ Call("reset", Null)
    /\ Len(trail) < MaxOps
    /\ ~nothingActive(currentFlavor)
    /\ pc' = enterRestore("reset")
    /\ idx' = 1
    /\ backups' = <<>>
    /\ report' = "running"
    /\ UNCHANGED <<env, disk, mem, errors, modified, failedAt, trail>>

\* the ledger resetFlavor leaves in memory
clearedState(s) == [s EXCEPT !.currentFlavor = Null, !.originalFiles = <<>>]

resetSave ==
    /\ pc = "resetSave"
    /\ state' = clearedState(state)
    /\ currentFlavor' = Null
    /\ ledgerFile' = writeJson(state')
    /\ idx' = 1
    /\ Step("resetRemove")
    /\ UNCHANGED <<env, targets, backupRoot, backup, gitignore>>

\* mutant of removeBackupDir: BACKUP_DIR is left in place
keepBackupDir(root) == root

\* if (await fs.pathExists(BACKUP_DIR)) await fs.remove(BACKUP_DIR):
\* whether BACKUP_DIR exists afterwards
removeBackupDir(root) == IF root THEN FALSE ELSE root

resetRemove ==
    /\ pc = "resetRemove"
    /\ backupRoot' = removeBackupDir(backupRoot)
    /\ backup' = IF backupRoot' THEN backup ELSE NoBackups
    /\ idx' = 1
    /\ Step("resetIgnore")
    /\ UNCHANGED <<env, targets, ledgerFile, gitignore, mem>>

resetIgnore ==
    /\ pc = "resetIgnore"
    /\ gitignore' = updateGitignore(gitignore, currentFlavor, config)
    /\ Return("reset")
    /\ UNCHANGED <<env, targets, backupRoot, backup, ledgerFile, mem>>

-----------------------------------------------------------------------------
(* An fs call of the step in progress throws (permission denied, disk      *)
(* full): the catch block reports it and the process exits.                *)

\* the step in progress makes an fs call that can throw
fsCallPending ==
    CASE pc = "restore" ->
            LET info == state.originalFiles[idx]
            IN  restoreAction(info, targets[info.target], backup[info.target]) # "skip"
      [] pc = "backup" -> pathExists(targets[config.mappings[idx].target])
      [] pc = "apply" -> pathExists(flavorsDir[arg].files[config.mappings[idx].source])
      [] pc = "resetRemove" -> backupRoot
      [] pc \in {"backupSave", "switchSave", "switchIgnore", "resetSave", "resetIgnore"} -> TRUE
      [] OTHER -> FALSE

ioError ==
    /\ fsCallPending
    /\ Throw("FileOpError")
    /\ UNCHANGED <<env, disk, mem>>

-----------------------------------------------------------------------------
(* The specification *)

switchFlavor ==
    \E f \in Requested :
        \/ switchNotConfigured(f)
        \/ switchInactive(f)
        \/ switchStructureInvalid(f)
        \/ switchValidated(f)

resetFlavor == resetNothing \/ resetBegin

Next ==
    \/ init
    \/ switchFlavor
    \/ restoreOriginalFiles
    \/ backupOriginalFiles
    \/ backupSave
    \/ applyFlavor
    \/ switchSave
    \/ switchIgnore
    \/ resetFlavor
    \/ resetSave
    \/ resetRemove
    \/ resetIgnore

Spec == Init /\ [][Next]_vars

-----------------------------------------------------------------------------
(* BrandSwitcher, the copy of the class under the other name: the same     *)
(* steps over the same files, but for its getFileHash, which has no        *)
(* directory check and reads the path with fs.readFileSync.                *)

\* BrandSwitcher.getFileHash throws: fs.readFileSync of a directory (EISDIR)
getFileHashBrandThrows(node) == node.kind = "dir"

\* BrandSwitcher.getFileHash, where it returns
getFileHashBrand(node) ==
    IF ~pathExists(node) THEN Null ELSE Sha256(node.data)

\* BrandSwitcher.backupOriginalFiles: one mapping per step
backupOriginalFilesBrand ==
    /\ pc = "backup"
    /\ LET mapping == config.mappings[idx]
           t       == mapping.target
           last    == idx = Len(config.mappings)
       IN  IF pathExists(targets[t])
           THEN IF getFileHashBrandThrows(targets[t])
                THEN /\ Throw("FileOpError")
                     /\ UNCHANGED <<env, disk, mem>>
                ELSE /\ backupRoot' = TRUE
                     /\ IF copyFails(targets[t], backup[t])
                        THEN /\ Throw("FileOpError")
                             /\ UNCHANGED <<env, targets, backup, ledgerFile, gitignore, mem>>
                        ELSE /\ backup' = [backup EXCEPT ![t] = copy(targets[t], backup[t])]
                             /\ backups' = Append(backups,
                                    [target |-> t,
                                     hash |-> orUndefined(getFileHashBrand(targets[t])),
                                     exists |-> TRUE, type |-> mapping.type])
                             /\ idx' = IF last THEN 1 ELSE idx + 1
                             /\ pc' = IF last THEN "backupSave" ELSE "backup"
                             /\ UNCHANGED <<env, targets, ledgerFile, gitignore, mem,
                                            op, arg, ghost>>
           ELSE /\ backups' = Append(backups,
                       [target |-> t, hash |-> Undefined,
                        exists |-> FALSE, type |-> mapping.type])
                /\ idx' = IF last THEN 1 ELSE idx + 1
                /\ pc' = IF last THEN "backupSave" ELSE "backup"
                /\ UNCHANGED <<env, disk, mem, op, arg, ghost>>

\* the steps of BrandSwitcher: init, switchBrand, resetBrand
NextBrand ==
    \/ init
    \/ switchFlavor
    \/ restoreOriginalFiles
    \/ backupOriginalFilesBrand
    \/ backupSave
    \/ applyFlavor
    \/ switchSave
    \/ switchIgnore
    \/ resetFlavor
    \/ resetSave
    \/ resetRemove
    \/ resetIgnore

\* the same program with fs calls that may throw, over fewer flavor layouts
InitIo ==
    /\ Init
    /\ flavorsDir["a"] \in {Layout(TRUE, File("a"), File("a"), EmptyDir),
                            Layout(TRUE, FlavorDir("a"), FlavorDir("a"), EmptyDir)}
    /\ flavorsDir["b"] \in {Layout(TRUE, File("b"), Absent, EmptyDir),
                            Layout(TRUE, File("b"), FlavorDir("b"), EmptyDir),
                            Layout(TRUE, Absent, File("b"), EmptyDir)}
    /\ gitignore.exists

NextIo == Next \/ ioError

SpecIo == InitIo /\ [][NextIo]_vars

-----------------------------------------------------------------------------
(* init() called again on an instance that is already initialised, while   *)
(* the ledger file may have been removed or damaged in between.            *)

reinit ==
    /\ pc = "ready"
    /\ initFrom(currentFlavor)

\* STATE_FILE is deleted, or overwritten with text that is not JSON
loseLedger ==
    /\ pc = "ready"
    /\ ledgerFile.exists /\ ledgerFile.readable
    /\ ledgerFile' \in {NoLedger, CorruptLedger}
    /\ UNCHANGED <<env, targets, backupRoot, backup, gitignore, mem, ctl, ghost>>

InitReinit ==
    /\ Init
    /\ flavorsDir["a"] = CompleteLayout("a")
    /\ flavorsDir["b"] \in {CompleteLayout("b"), Layout(TRUE, Absent, File("b"), EmptyDir)}
    /\ gitignore = NoFile

NextReinit == Next \/ reinit \/ loseLedger

SpecReinit == InitReinit /\ [][NextReinit]_vars

-----------------------------------------------------------------------------
(* A later invocation: a fresh instance over whatever an earlier           *)
(* invocation, or the user, left on disk: a ledger that names a flavor     *)
(* with or without FileInfo records, no ledger, a ledger that is not JSON, *)
(* backups present or gone, targets holding original or flavor content.    *)

ResumeConfigs == { c \in Configs : c.mappings[1].type = "file" }

\* the FileInfo records a ledger may hold for a mapping
StoredInfos(mapping) ==
    { FileInfoOf(mapping, File("o")), FileInfoOf(mapping, Absent) }
    \cup (IF mapping.type = "directory" THEN {FileInfoOf(mapping, OriginalDir)} ELSE {})

ResumeStates(cfg) ==
    { [currentFlavor |-> cur, originalFiles |-> infos]
      : cur \in {Null, "a"},
        infos \in {<<>>} \cup { <<i1, i2>> : i1 \in StoredInfos(cfg.mappings[1]),
                                              i2 \in StoredInfos(cfg.mappings[2]) } }

ResumeLedgers(cfg) ==
    {NoLedger, CorruptLedger} \cup { writeJson(st) : st \in ResumeStates(cfg) }

InitResume ==
    /\ config = NoConfig
    /\ configFile \in { ConfigFileOf(c) : c \in ResumeConfigs }
    /\ flavorsRoot = TRUE
    /\ flavorsDir \in { [f \in FlavorIds |-> IF f = "b" THEN lb ELSE CompleteLayout(f)]
                        : lb \in {CompleteLayout("b"),
                                  Layout(TRUE, Absent, File("b"), EmptyDir)} }
    /\ targets \in { [t \in Targets |-> IF t = "t1" THEN n1 ELSE n2]
                     : n1 \in {File("o"), File("a")},
                       n2 \in {Absent, File("a"), OriginalDir} }
    /\ backup \in { [t \in Targets |-> IF t = "t1" THEN n1 ELSE n2]
                    : n1 \in {Absent, File("o")},
                      n2 \in {Absent, File("o"), OriginalDir} }
    /\ backupRoot = (\E t \in Targets : pathExists(backup[t]))
    /\ ledgerFile \in ResumeLedgers(validated(configFile.data))
    /\ gitignore = NoFile
    /\ state = EmptyState
    /\ currentFlavor = Null
    /\ pc = "new"
    /\ op = "none"
    /\ arg = Null
    /\ idx = 0
    /\ backups = <<>>
    /\ report = "none"
    /\ errors = <<>>
    /\ modified = {}
    /\ failedAt = "none"
    /\ trail = <<>>
    /\ baseline = [t \in Targets |-> IF targets[t] = File("a") THEN File("o")
                                     ELSE targets[t]]
    /\ snap = Disk

NextResume == Next

SpecResume == InitResume /\ [][NextResume]_vars

-----------------------------------------------------------------------------
(* The configuration is edited between two invocations: the project starts *)
(* with the first mapping only and the user adds the second one.           *)

\* configuration c with its first mapping only
FirstMappingOnly(c) == [c EXCEPT !.mappings = <<c.mappings[1]>>]

\* the user adds the second mapping to CONFIG_FILE; the next command runs in
\* a new process, on a fresh instance
addMapping ==
    /\ pc = "ready"
    /\ Len(configFile.data.mappings) = 1
    /\ configFile' \in { ConfigFileOf(c) : c \in
                             { d \in Configs : ConfigFileOf(FirstMappingOnly(d)) = configFile } }
    /\ pc' = "new"
    /\ config' = NoConfig
    /\ state' = EmptyState
    /\ currentFlavor' = Null
    /\ op' = "edit"
    /\ UNCHANGED <<flavorsRoot, flavorsDir, disk, arg, idx, backups, ghost>>

InitEdit ==
    /\ config = NoConfig
    /\ configFile \in { ConfigFileOf(FirstMappingOnly(c)) : c \in Configs }
    /\ flavorsRoot = TRUE
    /\ flavorsDir \in { [f \in FlavorIds |-> IF f = "b" THEN lb ELSE CompleteLayout(f)]
                        : lb \in {CompleteLayout("b"),
                                  Layout(TRUE, Absent, File("b"), EmptyDir)} }
    /\ targets \in [Targets -> TargetInit]
    /\ backupRoot = FALSE
    /\ backup = NoBackups
    /\ ledgerFile = NoLedger
    /\ gitignore = NoFile
    /\ state = EmptyState
    /\ currentFlavor = Null
    /\ pc = "new"
    /\ op = "none"
    /\ arg = Null
    /\ idx = 0
    /\ backups = <<>>
    /\ report = "none"
    /\ errors = <<>>
    /\ modified = {}
    /\ failedAt = "none"
    /\ trail = <<>>
    /\ baseline = targets
    /\ snap = Disk

NextEdit == Next \/ addMapping

SpecEdit == InitEdit /\ [][NextEdit]_vars

-----------------------------------------------------------------------------
(* The other commands: status, validate and the interactive switch; and    *)
(* the user, who edits a target file while a flavor is active.             *)

\* Object.entries(this.config.flavors)
FlavorOrder == <<"a", "b", "c">>

\* the FileInfo the ledger holds for a target: originalFiles[target]
RECURSIVE infoOf(_, _)
infoOf(infos, t) ==
    IF infos = <<>> THEN [target |-> t, hash |-> Undefined, exists |-> FALSE, type |-> Undefined]
    ELSE IF Head(infos).target = t THEN Head(infos)
    ELSE infoOf(Tail(infos), t)

\* checkStatus: the targets printed with [MODIFIED]
statusModified(infos, nodes) ==
    { infos[i].target : i \in { j \in 1..Len(infos) :
                                  getFileHash(nodes[infos[j].target]) # infos[j].hash } }

\* validate: the targets warned about as Modified
validateModified(cfg, infos, nodes) ==
    { cfg.mappings[i].target : i \in { j \in 1..Len(cfg.mappings) :
          LET t == cfg.mappings[j].target
          IN  pathExists(nodes[t]) /\ getFileHash(nodes[t]) # infoOf(infos, t).hash } }

checkStatus ==
    /\ pc = "ready"
    /\ op' = "status"
    /\ arg' = Null
    /\ snap' = Disk
    /\ report' = "status"
    /\ modified' = IF currentFlavor # Null
                   THEN statusModified(state.originalFiles, targets) ELSE {}
    /\ UNCHANGED <<env, disk, mem, pc, idx, backups, errors, failedAt, trail, baseline>>

\* the messages of the active flavors that fail structure validation
RECURSIVE flavorFailures(_, _, _)
flavorFailures(cfg, order, dirs) ==
    IF order = <<>> THEN <<>>
    ELSE (IF isActive(cfg, Head(order)) /\ ~validateFlavorStructure(cfg, dirs[Head(order)])
          THEN validationFailure(cfg, dirs[Head(order)]) ELSE <<>>)
         \o flavorFailures(cfg, Tail(order), dirs)

\* mutant of hasErrors: FLAVORS_DIR is not looked at
hasErrorsInFlavorsOnly(cfg, root, dirs) == flavorFailures(cfg, FlavorOrder, dirs) # <<>>

\* validate: hasErrors
hasErrors(cfg, root, dirs) == ~root \/ flavorFailures(cfg, FlavorOrder, dirs) # <<>>

validate ==
    /\ pc = "ready"
    /\ op' = "validateAll"
    /\ arg' = Null
    /\ snap' = Disk
    /\ errors' = flavorFailures(config, FlavorOrder, flavorsDir)
    /\ modified' = IF currentFlavor # Null
                   THEN validateModified(config, state.originalFiles, targets) ELSE {}
    /\ IF hasErrors(config, flavorsRoot, flavorsDir)
       THEN pc' = "exited" /\ report' = "validationFailed"
       ELSE pc' = "ready" /\ report' = "validationsPassed"
    /\ UNCHANGED <<env, disk, mem, idx, backups, failedAt, trail, baseline>>

\* the choices of the first prompt
activeFlavors(cfg) == { f \in DOMAIN cfg.flavors : isActive(cfg, f) }

\* mutant of alreadyActive: the selection is never taken for the current flavor
alreadyActiveNever(selected, cur) == FALSE

\* selectedFlavor === this.currentFlavor
alreadyActive(selected, cur) == selected = cur

\* interactiveSwitch returns without calling switchFlavor
interactiveReturns(selected, msg) ==
    /\ pc = "ready"
    /\ op' = "interactive"
    /\ arg' = selected
    /\ snap' = Disk
    /\ report' = msg
    /\ UNCHANGED <<env, disk, mem, pc, idx, backups, errors, modified, failedAt,
                   trail, baseline>>

interactiveNoFlavors ==
    /\ pc = "ready"
    /\ activeFlavors(config) = {}
    /\ interactiveReturns(Null, "noActiveFlavors")

interactiveAlreadyActive(selected) ==
    /\ pc = "ready"
    /\ selected \in activeFlavors(config)
    /\ alreadyActive(selected, currentFlavor)
    /\ interactiveReturns(selected, "alreadyActive")

interactiveDeclined(selected) ==
    /\ pc = "ready"
    /\ selected \in activeFlavors(config)
    /\ ~alreadyActive(selected, currentFlavor)
    /\ interactiveReturns(selected, "declined")

\* the operator confirms: switchFlavor(selectedFlavor) is about to be called
interactiveConfirmed(selected) ==
    /\ pc = "ready"
    /\ selected \in activeFlavors(config)
    /\ ~alreadyActive(selected, currentFlavor)
    /\ pc' = "confirmed"
    /\ op' = "interactive"
    /\ arg' = selected
    /\ snap' = Disk
    /\ report' = "confirmed"
    /\ UNCHANGED <<env, disk, mem, idx, backups, errors, modified, failedAt,
                   trail, baseline>>

interactiveSwitch ==
    \/ interactiveNoFlavors
    \/ \E selected \in FlavorIds :
          \/ interactiveAlreadyActive(selected)
          \/ interactiveDeclined(selected)
          \/ interactiveConfirmed(selected)

\* the user rewrites a target file while a flavor is active
userEdit ==
    /\ pc = "ready"
    /\ currentFlavor # Null
    /\ \E t \in Targets, c \in {"u", "o"} :
          /\ targets[t].kind = "file"
          /\ targets[t] # File(c)
          /\ targets' = [targets EXCEPT ![t] = File(c)]
    /\ op' = "edit"
    /\ UNCHANGED <<env, backupRoot, backup, ledgerFile, gitignore, mem,
                   pc, arg, idx, backups, ghost>>

CliConfigs ==
    { [version |-> "1.0.0", projectRoot |-> "./",
       flavors |-> [f \in FlavorIds |-> [displayName |-> "name",
                                         active |-> (anyActive /\ f # "c")]],
       mappings |-> << Mapping("s1", "t1", "file", TRUE),
                       Mapping("s2", "t2", ty2, FALSE) >>,
       requiredStructure |-> [files |-> <<"s1">>, directories |-> <<"d1">>]]
      : anyActive \in BOOLEAN, ty2 \in {"file", "directory"} }

CliLayouts ==
    { [f \in FlavorIds |-> CASE f = "a" -> la [] f = "b" -> lb [] OTHER -> lc]
      : la \in {CompleteLayout("a"), Layout(TRUE, File("a"), Absent, EmptyDir)},
        lb \in {CompleteLayout("b"), Layout(TRUE, Absent, File("b"), EmptyDir)},
        lc \in {CompleteLayout("c"), NoFlavorDir} }

InitCli ==
    /\ config = NoConfig
    /\ configFile \in { ConfigFileOf(c) : c \in CliConfigs }
    /\ flavorsRoot \in BOOLEAN
    /\ flavorsDir \in IF flavorsRoot THEN CliLayouts
                     ELSE { [f \in FlavorIds |-> NoFlavorDir] }
    /\ targets \in { [t \in Targets |-> IF t = "t1" THEN n1 ELSE n2]
                     : n1 \in {File("o"), Absent}, n2 \in {File("o"), OriginalDir, Absent} }
    /\ backupRoot = FALSE
    /\ backup = NoBackups
    /\ ledgerFile = NoLedger
    /\ gitignore = NoFile
    /\ state = EmptyState
    /\ currentFlavor = Null
    /\ pc = "new"
    /\ op = "none"
    /\ arg = Null
    /\ idx = 0
    /\ backups = <<>>
    /\ report = "none"
    /\ errors = <<>>
    /\ modified = {}
    /\ failedAt = "none"
    /\ trail = <<>>
    /\ baseline = targets
    /\ snap = Disk

NextCli == Next \/ checkStatus \/ validate \/ interactiveSwitch \/ userEdit

SpecCli == InitCli /\ [][NextCli]_vars

-----------------------------------------------------------------------------
(* initProject, the static scaffolding command, on its own.  The example   *)
(* flavor is flavor a: s1 is its assets/logo.png, s2 its                   *)
(* config/app.config.json and d1 its styles directory.                     *)

MaxInits == 2

\* the texts .gitignore may hold: user text, newlines, blanks and the marker
Chars == {"u", "NL", "SP", "M"}
Texts == UNION { [1..n -> Chars] : n \in 0..MaxText }

DefaultConfig ==
    [version |-> "1.0.0", projectRoot |-> "./",
     flavors |-> [f \in {"a"} |-> [displayName |-> "name", active |-> TRUE]],
     mappings |-> << Mapping("s1", "t1", "file", TRUE),
                     Mapping("s2", "t2", "file", TRUE) >>,
     requiredStructure |-> [files |-> <<"s1", "s2">>, directories |-> <<>>]]

\* `\n${GITIGNORE_MARKER}\n${STATE_FILE}\n${BACKUP_DIR}/\n`
InitBlock == <<"NL", "M", "NL", "S", "NL", "B", "NL">>

\* mutant of gitignoreWithBlock: the block is appended whatever the file holds
gitignoreAlwaysBlock(file) ==
    [exists |-> TRUE, text |-> (IF file.exists THEN file.text ELSE <<>>) \o InitBlock]

\* the .gitignore initProject leaves
gitignoreWithBlock(file) ==
    LET gitignoreContent == IF file.exists THEN file.text ELSE <<>>
    IN  IF indexOf(gitignoreContent, "M", 1) = 0
        THEN [exists |-> TRUE, text |-> gitignoreContent \o InitBlock]
        ELSE file

\* the files initProject reads and writes
Project == [configFile |-> configFile, flavorsRoot |-> flavorsRoot,
            flavorsDir |-> flavorsDir, gitignore |-> gitignore]

\* fs.ensureDir on a path
ensureDir(node) == IF node.kind = "absent" THEN EmptyDir ELSE node

\* the example flavor after the first n of: ensureDir(styles), writeFile(logo),
\* writeJson(app.config.json)
scaffold(fl, n) ==
    [root |-> TRUE,
     files |-> [q \in Paths |->
        CASE q = "d1" -> IF n >= 1 THEN ensureDir(fl.files[q]) ELSE fl.files[q]
          [] q = "s1" -> IF n >= 2 THEN File("a") ELSE fl.files[q]
          [] q = "s2" -> IF n >= 3 THEN File("a") ELSE fl.files[q]]]

\* how many of the three steps run before one throws: ensureDir over a file
\* and writeFile over a directory fail
scaffolded(fl) ==
    IF fl.files["d1"].kind = "file" THEN 0
    ELSE IF fl.files["s1"].kind = "dir" THEN 1
    ELSE IF fl.files["s2"].kind = "dir" THEN 2
    ELSE 3

\* the files and the outcome of initProject
initProjectFiles(files) ==
    IF files.configFile.exists
    THEN [files |-> files, report |-> "alreadyInitialized"]
    ELSE LET n == scaffolded(files.flavorsDir["a"])
             written ==
                 [files EXCEPT !.configFile = ConfigFileOf(DefaultConfig),
                               !.flavorsRoot = TRUE,
                               !.flavorsDir["a"] = scaffold(@, n)]
         IN  IF n < 3
             THEN [files |-> written, report |-> "FileOpError"]
             ELSE [files |-> [written EXCEPT !.gitignore = gitignoreWithBlock(@)],
                   report |-> "initialized"]

initProject ==
    /\ pc = "new"
    /\ Len(trail) < MaxInits
    /\ LET done == initProjectFiles(Project)
       IN  /\ configFile' = done.files.configFile
           /\ flavorsRoot' = done.files.flavorsRoot
           /\ flavorsDir' = done.files.flavorsDir
           /\ gitignore' = done.files.gitignore
           /\ report' = done.report
           /\ trail' = Append(trail, [op |-> "initProject", flavor |-> Null,
                                      ok |-> done.report # "FileOpError"])
    /\ op' = "initProject"
    /\ snap' = Project
    /\ UNCHANGED <<config, targets, backupRoot, backup, ledgerFile, mem,
                   pc, arg, idx, backups, errors, modified, failedAt, baseline>>

\* the example flavor's directory before initProject
ExampleLayouts ==
    { NoFlavorDir, Layout(TRUE, Absent, Absent, Absent), CompleteLayout("a"),
      Layout(TRUE, File("o"), EmptyDir, EmptyDir),
      Layout(TRUE, EmptyDir, Absent, Absent),
      Layout(TRUE, Absent, Absent, File("o")) }

InitProject ==
    /\ config = NoConfig
    /\ configFile \in { [exists |-> FALSE, parses |-> FALSE,
                          data |-> ConfigFileOf(DefaultConfig).data] }
                       \cup { ConfigFileOf(c) : c \in Configs }
    /\ flavorsDir \in { [f \in FlavorIds |-> IF f = "a" THEN l ELSE NoFlavorDir]
                        : l \in ExampleLayouts }
    /\ flavorsRoot = flavorsDir["a"].root
    /\ targets = [t \in Targets |-> File("o")]
    /\ backupRoot = FALSE
    /\ backup = NoBackups
    /\ ledgerFile = NoLedger
    /\ gitignore \in {NoFile} \cup { [exists |-> TRUE, text |-> s] : s \in Texts }
    /\ state = EmptyState
    /\ currentFlavor = Null
    /\ pc = "new"
    /\ op = "none"
    /\ arg = Null
    /\ idx = 0
    /\ backups = <<>>
    /\ report = "none"
    /\ errors = <<>>
    /\ modified = {}
    /\ failedAt = "none"
    /\ trail = <<>>
    /\ baseline = targets
    /\ snap = Project

NextProject == initProject

SpecProject == InitProject /\ [][NextProject]_vars

-----------------------------------------------------------------------------
(* init() on its own: a fresh instance over whatever CONFIG_FILE and       *)
(* STATE_FILE the project holds.                                           *)

StoredStates ==
    { EmptyState,
      [currentFlavor |-> "a",
       originalFiles |-> << FileInfoOf(Mapping("s1", "t1", "file", TRUE), File("o")) >>],
      [currentFlavor |-> "b",
       originalFiles |-> << FileInfoOf(Mapping("s1", "t1", "file", TRUE), Absent) >>] }

LedgerFiles == {NoLedger, CorruptLedger} \cup { writeJson(st) : st \in StoredStates }

InitLoad ==
    /\ config = NoConfig
    /\ configFile \in ConfigFiles
    /\ flavorsRoot = TRUE
    /\ flavorsDir = [f \in FlavorIds |-> CompleteLayout(f)]
    /\ targets = [t \in Targets |-> File("o")]
    /\ backupRoot = FALSE
    /\ backup = NoBackups
    /\ ledgerFile \in LedgerFiles
    /\ gitignore = NoFile
    /\ state = EmptyState
    /\ currentFlavor = Null
    /\ pc = "new"
    /\ op = "none"
    /\ arg = Null
    /\ idx = 0
    /\ backups = <<>>
    /\ report = "none"
    /\ errors = <<>>
    /\ modified = {}
    /\ failedAt = "none"
    /\ trail = <<>>
    /\ baseline = targets
    /\ snap = Disk

NextLoad == init

SpecLoad == InitLoad /\ [][NextLoad]_vars

-----------------------------------------------------------------------------
(* getFileHash on its own: the method called on paths that hold nothing,   *)
(* a file of any content, or a directory.                                  *)

HashInputs == {Absent, OriginalDir, EmptyDir} \cup { File(c) : c \in Content }

InitHash ==
    /\ config \in { c \in Configs : \A i \in 1..Len(c.mappings) : c.mappings[i].type = "file" }
    /\ configFile = ConfigFileOf(config)
    /\ flavorsRoot = TRUE
    /\ flavorsDir = [f \in FlavorIds |-> CompleteLayout(f)]
    /\ targets \in [Targets -> HashInputs]
    /\ backupRoot = FALSE
    /\ backup = NoBackups
    /\ ledgerFile = NoLedger
    /\ gitignore = NoFile
    /\ state = EmptyState
    /\ currentFlavor = Null
    /\ pc = "ready"
    /\ op = "none"
    /\ arg = Null
    /\ idx = 0
    /\ backups = <<>>
    /\ report = "none"
    /\ errors = <<>>
    /\ modified = {}
    /\ failedAt = "none"
    /\ trail = <<>>
    /\ baseline = targets
    /\ snap = Disk

\* one call of getFileHash(t): the value returned is kept in the history
getFileHashCall(t) ==
    /\ pc = "ready"
    /\ Len(trail) < MaxHashes
    /\ op' = "hash"
    /\ arg' = t
    /\ snap' = Disk
    /\ report' = "returned"
    /\ trail' = Append(trail, [op |-> "hash", flavor |-> t, ok |-> TRUE,
                               hash |-> getFileHash(targets[t])])
    /\ UNCHANGED <<env, disk, mem, pc, idx, backups, errors, modified, failedAt, baseline>>

NextHash == \E t \in Targets : getFileHashCall(t)

SpecHash == InitHash /\ [][NextHash]_vars

-----------------------------------------------------------------------------
(* updateGitignore on its own: the method run again and again on whatever  *)
(* .gitignore the project came with, while the active flavor changes.      *)


InitSync ==
    /\ config \in Configs
    /\ configFile = ConfigFileOf(config)
    /\ flavorsRoot = TRUE
    /\ flavorsDir = [f \in FlavorIds |-> CompleteLayout(f)]
    /\ targets = [t \in Targets |-> File("o")]
    /\ backupRoot = FALSE
    /\ backup = NoBackups
    /\ ledgerFile = NoLedger
    /\ gitignore \in {NoFile} \cup { [exists |-> TRUE, text |-> s] : s \in Texts }
    /\ state = EmptyState
    /\ currentFlavor = Null
    /\ pc = "ready"
    /\ op = "none"
    /\ arg = Null
    /\ idx = 0
    /\ backups = <<>>
    /\ report = "none"
    /\ errors = <<>>
    /\ modified = {}
    /\ failedAt = "none"
    /\ trail = <<>>
    /\ baseline = targets
    /\ snap = Disk

\* this.currentFlavor = flavorName, or = null
setCurrentFlavor ==
    /\ pc = "ready"
    /\ \E f \in {Null} \cup {g \in FlavorIds : isActive(config, g)} :
          /\ f # currentFlavor
          /\ currentFlavor' = f
          /\ state' = [state EXCEPT !.currentFlavor = f]
    /\ UNCHANGED <<env, disk, ctl, ghost>>

\* one call of updateGitignore()
updateGitignoreCall ==
    /\ pc = "ready"
    /\ Len(trail) < MaxSyncs
    /\ op' = "sync"
    /\ arg' = currentFlavor
    /\ snap' = Disk
    /\ gitignore' = updateGitignore(gitignore, currentFlavor, config)
    /\ report' = "synced"
    /\ trail' = Append(trail, [op |-> "sync", flavor |-> currentFlavor, ok |-> TRUE])
    /\ UNCHANGED <<env, targets, backupRoot, backup, ledgerFile, mem,
                   pc, idx, backups, errors, modified, failedAt, baseline>>

NextSync == setCurrentFlavor \/ updateGitignoreCall

SpecSync == InitSync /\ [][NextSync]_vars

-----------------------------------------------------------------------------
(* validateFlavorStructure on its own: the method called on an initialised *)
(* instance, over configurations that require none, one or two files, no   *)
(* or one directory, and zero to two mapping sources, and over flavor      *)
(* directories that hold or lack each of them.                             *)

ValidateConfigs ==
    { [version |-> "1.0.0", projectRoot |-> "./",
       flavors |-> [f \in FlavorIds |-> [displayName |-> "name", active |-> (f # "c")]],
       mappings |-> << Mapping("s1", "t1", "file", r1),
                       Mapping("s2", "t2", "file", r2) >>,
       requiredStructure |-> [files |-> fs, directories |-> ds]]
      : r1 \in BOOLEAN, r2 \in BOOLEAN,
        fs \in {<<>>, <<"s1">>, <<"s1", "s2">>}, ds \in {<<>>, <<"d1">>} }

ValidateLayouts(f) ==
    { Layout(TRUE, s1, s2, d1)
        : s1 \in {Absent, File(f)}, s2 \in {Absent, File(f)},
          d1 \in {Absent, EmptyDir, File(f)} }
    \cup {NoFlavorDir}

InitValidate ==
    /\ config \in ValidateConfigs
    /\ configFile = ConfigFileOf(config)
    /\ flavorsRoot = TRUE
    /\ flavorsDir \in { [f \in FlavorIds |-> CASE f = "a" -> la [] f = "b" -> NoFlavorDir
                                               [] OTHER -> CompleteLayout(f)]
                        : la \in ValidateLayouts("a") }
    /\ targets = [t \in Targets |-> File("o")]
    /\ backupRoot = FALSE
    /\ backup = NoBackups
    /\ ledgerFile = NoLedger
    /\ gitignore = NoFile
    /\ state = EmptyState
    /\ currentFlavor = Null
    /\ pc = "ready"
    /\ op = "none"
    /\ arg = Null
    /\ idx = 0
    /\ backups = <<>>
    /\ report = "none"
    /\ errors = <<>>
    /\ modified = {}
    /\ failedAt = "none"
    /\ trail = <<>>
    /\ baseline = targets
    /\ snap = Disk

\* one call of validateFlavorStructure(f): it returns true, or throws
validateFlavorStructureCall(f) ==
    /\ pc = "ready"
    /\ op' = "validate"
    /\ arg' = f
    /\ snap' = Disk
    /\ IF validateFlavorStructure(config, flavorsDir[f])
       THEN report' = "valid" /\ errors' = <<>>
       ELSE report' = "StructureInvalid"
            /\ errors' = validationFailure(config, flavorsDir[f])
    /\ UNCHANGED <<env, disk, mem, pc, idx, backups, modified, failedAt, trail, baseline>>

NextValidate == \E f \in FlavorIds : validateFlavorStructureCall(f)

SpecValidate == InitValidate /\ [][NextValidate]_vars

-----------------------------------------------------------------------------
(* What the history variables say *)

SwitchOk(e)  == e.op = "switch" /\ e.ok
ResetOk(e)   == e.op = "reset" /\ e.ok
Settled      == pc \in {"ready", "exited"}
JustSwitched == pc = "ready" /\ report = "switched"
JustReset    == pc = "ready" /\ report = "reset"
WasActive    == snap.ledgerFile.content.currentFlavor # Null

\* the only commands so far: one successful switch, then a reset
SwitchThenReset ==
    /\ Settled /\ op = "reset" /\ report # "nothingActive"
    /\ Len(trail) = 2 /\ SwitchOk(trail[1]) /\ trail[2].op = "reset"

\* the only commands so far: two successful switches, then a successful reset
SwitchSwitchReset ==
    /\ JustReset
    /\ Len(trail) = 3 /\ SwitchOk(trail[1]) /\ SwitchOk(trail[2]) /\ ResetOk(trail[3])

-----------------------------------------------------------------------------
(* C1: round-trip restore.  After switchFlavor(A) from NONE_ACTIVE and     *)
(* then resetFlavor(), every target that existed before the switch (file   *)
(* or directory) holds exactly the content it had before the switch.       *)
C1_RoundTripRestore ==
    (SwitchThenReset /\ ResetOk(trail[2])) =>
        \A t \in Targets : pathExists(baseline[t]) => targets[t] = baseline[t]

(* C2: non-existent-target cleanup.  After switchFlavor(A) and then        *)
(* resetFlavor(), no target that was absent before the switch exists,      *)
(* whatever the declared type and whatever the kind of the source.         *)
C2_AbsentTargetCleanup ==
    SwitchThenReset =>
        \A t \in Targets : ~pathExists(baseline[t]) => ~pathExists(targets[t])

(* C3: backup stability.  After switchFlavor(A), switchFlavor(B) and       *)
(* resetFlavor(), every target is as it was before A was applied.          *)
C3_BackupStability ==
    SwitchSwitchReset => targets = baseline

(* C4: in every state reached by switchFlavor calls (successful, or failed *)
(* part-way and retried) before any reset, each entry of the backup root   *)
(* equals what its target held before the first flavor was applied.        *)
C4_BackupIsOriginal ==
    (op # "reset" /\ \A i \in 1..Len(trail) : trail[i].op # "reset") =>
        \A t \in Targets : pathExists(backup[t]) => backup[t] = baseline[t]

-----------------------------------------------------------------------------
\* the FileInfo records of the ledger file
PersistedFiles == ledgerFile.content.originalFiles

(* C5: wherever switchFlavor or resetFlavor is interrupted, the persisted  *)
(* ledger holds no FileInfo with exists = true whose backup entry is not   *)
(* in the backup root, and the ledger is written only after the writes it  *)
(* describes: untouched until the backups are all captured, and naming the *)
(* previous flavor until the new one is applied.                           *)
C5_LedgerAfterFilesystem ==
    /\ \A i \in 1..Len(PersistedFiles) :
          PersistedFiles[i].exists => pathExists(backup[PersistedFiles[i].target])
    /\ pc \in {"restore", "backup", "backupSave", "resetSave"} =>
          ledgerFile = snap.ledgerFile
    /\ pc \in {"apply", "switchSave"} =>
          ledgerFile.content.currentFlavor = snap.ledgerFile.content.currentFlavor

\* a switch interrupted after the ledger write that records captured backups
C5_Witness ==
    /\ pc = "exited" /\ op = "switch" /\ report = "FileOpError"
    /\ ledgerFile # snap.ledgerFile
    /\ \E i \in 1..Len(PersistedFiles) : PersistedFiles[i].exists

-----------------------------------------------------------------------------
\* the flavor structure is invalid, in the words of the specification
StructureProblem(cfg, fl) ==
    \/ ~fl.root
    \/ \E i \in 1..Len(cfg.requiredStructure.files) :
          fl.files[cfg.requiredStructure.files[i]].kind = "absent"
    \/ \E i \in 1..Len(cfg.requiredStructure.directories) :
          fl.files[cfg.requiredStructure.directories[i]].kind = "absent"
    \/ \E i \in 1..Len(cfg.mappings) :
          cfg.mappings[i].required /\ fl.files[cfg.mappings[i].source].kind = "absent"

Configured == arg \in DOMAIN config.flavors
Active     == config.flavors[arg].active

(* C6: a switchFlavor whose flavor fails structure validation fails with   *)
(* StructureInvalid and changes nothing: targets, backup root, persisted   *)
(* ledger and .gitignore are as they were when it was called.              *)
C6_InvalidStructureNoMutation ==
    (op = "switch" /\ Configured /\ Active /\ StructureProblem(config, flavorsDir[arg])) =>
        (pc = "exited" /\ report = "StructureInvalid" /\ Disk = snap)

\* validation failed while another flavor was active
C6_Witness ==
    /\ pc = "exited" /\ report = "StructureInvalid" /\ WasActive
    /\ targets # baseline

(* C7: switchFlavor of an id that is not configured fails with             *)
(* NotConfigured, and of a flavor marked inactive with Inactive; either    *)
(* way targets, backup root, ledger and .gitignore are unchanged.          *)
C7_UnknownOrInactiveNoMutation ==
    /\ (op = "switch" /\ ~Configured) =>
          (pc = "exited" /\ report = "NotConfigured" /\ Disk = snap)
    /\ (op = "switch" /\ Configured /\ ~Active) =>
          (pc = "exited" /\ report = "Inactive" /\ Disk = snap)

\* an inactive flavor was requested while another flavor was active
C7_Witness ==
    /\ pc = "exited" /\ report = "Inactive" /\ arg = "c" /\ WasActive
    /\ targets # baseline

(* C8: when the source of a required mapping is missing from the flavor's  *)
(* directory, switchFlavor fails with RequiredSourceMissing, raised by     *)
(* applyFlavor.                                                            *)
C8_RequiredSourceMissingFromApply ==
    (/\ op = "switch" /\ pc = "exited" /\ Configured /\ Active
     /\ flavorsDir[arg].root
     /\ \E i \in 1..Len(config.mappings) :
           /\ config.mappings[i].required
           /\ ~pathExists(flavorsDir[arg].files[config.mappings[i].source]))
    => report = "RequiredSourceMissing"

-----------------------------------------------------------------------------
SourceOf(i) == flavorsDir[arg].files[config.mappings[i].source]
TargetOf(i) == targets[config.mappings[i].target]
BeforeOf(i) == snap.targets[config.mappings[i].target]

C9_Ledger ==
    /\ ledgerFile.exists
    /\ ledgerFile.content.currentFlavor = arg
    /\ Len(PersistedFiles) = Len(config.mappings)
    /\ \A i \in 1..Len(config.mappings) :
          PersistedFiles[i].target = config.mappings[i].target

C9_Backups ==
    \A t \in Targets : pathExists(snap.targets[t]) => backup[t] = snap.targets[t]

(* C9 as claimed: after a successful switchFlavor(id) from NONE_ACTIVE     *)
(* every target whose source exists equals that source, the ledger names   *)
(* id and has one FileInfo per mapping target, and every target that       *)
(* existed has a backup equal to its content before the call.              *)
C9_SwitchFromNoneExact ==
    (JustSwitched /\ ~WasActive) =>
        /\ \A i \in 1..Len(config.mappings) :
              pathExists(SourceOf(i)) => TargetOf(i) = SourceOf(i)
        /\ C9_Ledger
        /\ C9_Backups

\* the target holds the source, over what a directory target already held
HoldsSource(target, source, before) ==
    IF source.kind = "file" THEN target = source
    ELSE /\ target.kind = "dir"
         /\ \A k \in Kids :
               target.kids[k] = IF source.kids[k] # None THEN source.kids[k]
                                ELSE IF before.kind = "dir" THEN before.kids[k]
                                ELSE None

(* C9 as amended: as claimed, except that a directory source is copied     *)
(* into an existing target directory entry by entry: the target holds      *)
(* every entry of the source and keeps its own entries the source lacks.   *)
C9_SwitchFromNone ==
    (JustSwitched /\ ~WasActive) =>
        /\ \A i \in 1..Len(config.mappings) :
              pathExists(SourceOf(i)) => HoldsSource(TargetOf(i), SourceOf(i), BeforeOf(i))
        /\ C9_Ledger
        /\ C9_Backups

\* a first switch that put a flavor directory over an existing directory
\* and a flavor file over an existing file
C9_Witness ==
    /\ JustSwitched /\ ~WasActive
    /\ \E i \in 1..Len(config.mappings) :
          BeforeOf(i).kind = "dir" /\ SourceOf(i).kind = "dir" /\ TargetOf(i) # SourceOf(i)
    /\ \E i \in 1..Len(config.mappings) :
          BeforeOf(i).kind = "file" /\ SourceOf(i).kind = "file"

-----------------------------------------------------------------------------
(* C10: after a successful resetFlavor() from FLAVOR_ACTIVE the ledger     *)
(* file exists and holds {currentFlavor: null, originalFiles: {}}, and the *)
(* backup root does not exist.                                             *)
C10_ResetClearsLedgerAndBackups ==
    JustReset =>
        /\ ledgerFile.exists
        /\ ledgerFile.content.currentFlavor = Null
        /\ ledgerFile.content.originalFiles = <<>>
        /\ ~backupRoot
        /\ backup = NoBackups

\* a reset that found a flavor active and backups in the backup root
C10_Witness ==
    /\ JustReset /\ WasActive
    /\ snap.backupRoot
    /\ \E t \in Targets : pathExists(snap.backup[t])

-----------------------------------------------------------------------------
(* C11: resetFlavor() called while no flavor is active reports that no     *)
(* flavor is active and returns normally, and it changes nothing: targets, *)
(* backup root, persisted ledger and .gitignore are as they were.          *)
C11_ResetWhenNoneIsNoOp ==
    (op = "reset" /\ ~WasActive) =>
        (pc = "ready" /\ report = "nothingActive" /\ Disk = snap)

\* a reset with no flavor active, over what a failed switch left behind
C11_Witness ==
    /\ pc = "ready" /\ op = "reset" /\ report = "nothingActive"
    /\ backupRoot /\ ledgerFile.exists /\ PersistedFiles # <<>>

-----------------------------------------------------------------------------
\* updateGitignore was just run, right after a run with the same flavor
SyncedTwice ==
    /\ op = "sync" /\ Len(trail) >= 2
    /\ trail[Len(trail)].flavor = trail[Len(trail) - 1].flavor

(* C12: idempotence of sync.  Whatever the .gitignore was at first, a      *)
(* second updateGitignore in a row with the same active flavor leaves the  *)
(* file byte for byte as the first one wrote it.                           *)
C12_SyncIdempotent ==
    SyncedTwice => gitignore = snap.gitignore

-----------------------------------------------------------------------------
\* how many times the marker occurs in the text
markerCount(text) == Cardinality({ i \in 1..Len(text) : text[i] = "M" })

(* C13: once updateGitignore has run, however often and whatever flavors   *)
(* were made active or reset in between, .gitignore holds the marker       *)
(* exactly once.                                                           *)
C13_ExactlyOneMarker ==
    trail # <<>> => (gitignore.exists /\ markerCount(gitignore.text) = 1)

\* a run on a file that held the marker twice, after user text
C13_Witness ==
    /\ op = "sync" /\ trail # <<>>
    /\ markerCount(snap.gitignore.text) = 2
    /\ snap.gitignore.text[1] = "u"
    /\ markerCount(gitignore.text) = 1

-----------------------------------------------------------------------------
\* .gitignore from the marker to the end of the file
ManagedBlock ==
    LET m == indexOf(gitignore.text, "M", 1)
    IN  IF m = 0 THEN <<>> ELSE SubSeq(gitignore.text, m, Len(gitignore.text))

\* one line per mapping target, in configuration order
RECURSIVE TargetLines(_)
TargetLines(ms) ==
    IF ms = <<>> THEN <<>>
    ELSE <<"NL", Head(ms).target>> \o TargetLines(Tail(ms))

Listed(t) == \E i \in 1..Len(gitignore.text) : gitignore.text[i] = t

(* C14: after every successful switchFlavor or resetFlavor the managed     *)
(* block of .gitignore is the marker, the ledger file's path and the       *)
(* backup root's path, followed by every mapping target in configuration   *)
(* order exactly when the ledger names a flavor; after a reset no mapping  *)
(* target is listed.                                                       *)
C14_ManagedBlock ==
    (JustSwitched \/ JustReset) =>
        /\ gitignore.exists
        /\ ManagedBlock = <<"M", "NL", "S", "NL", "B">>
                           \o (IF ledgerFile.content.currentFlavor # Null
                               THEN TargetLines(config.mappings) ELSE <<>>)
        /\ JustSwitched => \A t \in Targets : Listed(t)
        /\ JustReset => \A t \in Targets : ~Listed(t)

\* a reset that took the targets a switch had listed out of the block
C14_Witness ==
    /\ JustReset
    /\ \E i \in 1..Len(snap.gitignore.text) : snap.gitignore.text[i] \in Targets
    /\ gitignore.text[1] = "u"

-----------------------------------------------------------------------------
\* text.split("\n")
RECURSIVE Lines(_)
Lines(text) ==
    LET nl == indexOf(text, "NL", 1)
    IN  IF nl = 0 THEN <<text>>
        ELSE <<SubSeq(text, 1, nl - 1)>> \o Lines(SubSeq(text, nl + 1, Len(text)))

IsPrefix(p, q) == Len(p) <= Len(q) /\ SubSeq(q, 1, Len(p)) = p

\* the user's own text: what precedes the marker, or the whole file
UserText(file) ==
    LET m == indexOf(file.text, "M", 1)
    IN  IF m = 0 THEN file.text ELSE SubSeq(file.text, 1, m - 1)

HasMarker(file) == indexOf(file.text, "M", 1) # 0

\* the lines of a text, but for the empty rest after its last newline
LinesOf(text) ==
    LET ls == Lines(text)
    IN  IF ls[Len(ls)] = <<>> THEN SubSeq(ls, 1, Len(ls) - 1) ELSE ls

\* the lines that precede the marker's line, or all lines of the file
UserLines(file) ==
    LET ls == Lines(UserText(file))
    IN  IF HasMarker(file) THEN SubSeq(ls, 1, Len(ls) - 1) ELSE LinesOf(file.text)

(* C15 as claimed: updateGitignore keeps the user's own content: every     *)
(* line that preceded the marker (every line of the file when it had no    *)
(* marker) is still there afterwards, in the same order, at the head of    *)
(* the file.                                                               *)
C15_UserLinesKeptExact ==
    (op = "sync" /\ trail # <<>>) =>
        IsPrefix(UserLines(snap.gitignore), Lines(gitignore.text))

(* C15 as amended: the same, except that when the file had a marker the    *)
(* whitespace that ended the text before it (blank lines, and blanks at    *)
(* the end of its last line) is dropped; with no marker the whole file is  *)
(* kept character for character.                                           *)
C15_UserLinesKept ==
    (op = "sync" /\ trail # <<>>) =>
        LET user == UserText(snap.gitignore)
            kept == IF HasMarker(snap.gitignore) THEN trimEnd(user) ELSE user
        IN  /\ IsPrefix(kept \o <<"NL">>, gitignore.text)
            /\ IsPrefix(LinesOf(kept), Lines(gitignore.text))

\* a run on a file with two lines of user text and a blank line before
\* the marker
C15_Witness ==
    /\ op = "sync" /\ trail # <<>>
    /\ HasMarker(snap.gitignore)
    /\ UserText(snap.gitignore) # trimEnd(UserText(snap.gitignore))
    /\ trimEnd(UserText(snap.gitignore)) = <<"u", "NL", "u">>
    /\ IsPrefix(<<"u", "NL", "u", "NL", "NL", "M">>, gitignore.text)

-----------------------------------------------------------------------------
\* the error lists this problem with this path
Lists(kind, path) == \E i \in 1..Len(errors) : errors[i] = <<kind, path>>

\* the paths of a sequence that the flavor lacks
AbsentOf(paths, fl) ==
    { paths[i] : i \in { j \in 1..Len(paths) : fl.files[paths[j]].kind = "absent" } }

RequiredSourcesOf(cfg) ==
    { cfg.mappings[i].source : i \in { j \in 1..Len(cfg.mappings) : cfg.mappings[j].required } }

(* C16: validateFlavorStructure reports all problems in one failure.  When *)
(* the flavor root exists the error lists every absent path of             *)
(* requiredStructure.files, every absent path of                           *)
(* requiredStructure.directories and every absent source of a required     *)
(* mapping, and nothing else; it returns true exactly when none is absent; *)
(* a missing flavor root is a failure.                                     *)
C16_ValidationAggregates ==
    op = "validate" =>
        LET fl    == flavorsDir[arg]
            files == AbsentOf(config.requiredStructure.files, fl)
            dirs  == AbsentOf(config.requiredStructure.directories, fl)
            srcs  == { p \in RequiredSourcesOf(config) : fl.files[p].kind = "absent" }
        IN  /\ report \in {"valid", "StructureInvalid"}
            /\ report = "valid" <=> ~StructureProblem(config, fl)
            /\ ~fl.root => report = "StructureInvalid"
            /\ fl.root =>
                  /\ \A p \in files : Lists("Missing required file", p)
                  /\ \A p \in dirs : Lists("Missing required directory", p)
                  /\ \A p \in srcs : Lists("Missing required mapping source", p)
                  /\ Len(errors) = Cardinality(files) + Cardinality(dirs)
                                     + Cardinality(srcs)

\* one failure that lists two missing files and a missing directory
C16_Witness ==
    /\ op = "validate" /\ report = "StructureInvalid"
    /\ Lists("Missing required file", "s1")
    /\ Lists("Missing required file", "s2")
    /\ Lists("Missing required directory", "d1")

-----------------------------------------------------------------------------
\* mapping i is optional and the requested flavor has no source for it
OptionalAndMissing(i) == ~config.mappings[i].required /\ ~pathExists(SourceOf(i))

(* C17: a mapping with required = false whose source the flavor lacks      *)
(* fails neither structure validation nor switchFlavor: validation does    *)
(* not list it, applyFlavor does not throw at it, and after the switch     *)
(* its target is as it was before any flavor was applied.                  *)
C17_OptionalSourceSkipped ==
    (op = "switch" /\ Configured /\ Active) =>
        /\ \A i \in 1..Len(config.mappings) :
              OptionalAndMissing(i) =>
                 ~Lists("Missing required mapping source", config.mappings[i].source)
        /\ (pc = "exited" /\ failedAt = "apply") => ~OptionalAndMissing(idx)
        /\ JustSwitched =>
              \A i \in 1..Len(config.mappings) :
                 OptionalAndMissing(i) => TargetOf(i) = baseline[config.mappings[i].target]

-----------------------------------------------------------------------------
\* null, or the id of a configured flavor that is marked active
NullOrActiveFlavor(cur) ==
    \/ cur = Null
    \/ cur \in DOMAIN config.flavors /\ config.flavors[cur].active

(* C18: in every state reached from an empty ledger by switchFlavor and    *)
(* resetFlavor calls, the ledger's currentFlavor, on disk and in memory,   *)
(* is null or the id of one flavor that is configured and marked active.   *)
C18_CurrentFlavorValid ==
    /\ NullOrActiveFlavor(ledgerFile.content.currentFlavor)
    /\ NullOrActiveFlavor(state.currentFlavor)
    /\ NullOrActiveFlavor(currentFlavor)

\* the ledger names the second of two flavors switched to in turn
C18_Witness ==
    /\ JustSwitched /\ WasActive
    /\ ledgerFile.content.currentFlavor = "b"
    /\ snap.ledgerFile.content.currentFlavor = "a"

-----------------------------------------------------------------------------
(* C19: capture-backup rule.  backupOriginalFiles runs only in a           *)
(* switchFlavor that started with no flavor active; a switchFlavor that    *)
(* started with a flavor active leaves the ledger's originalFiles and the  *)
(* backup root with its contents as they were, at every step and whether   *)
(* it succeeds or fails.                                                   *)
C19_NoRecapture ==
    /\ pc \in {"backup", "backupSave"} => (op = "switch" /\ ~WasActive)
    /\ (op = "switch" /\ WasActive) =>
          /\ PersistedFiles = snap.ledgerFile.content.originalFiles
          /\ state.originalFiles = readJson(snap.ledgerFile.content).originalFiles
          /\ backupRoot = snap.backupRoot
          /\ backup = snap.backup

\* a switch from one flavor to another that succeeded, with FileInfo
\* records and backups captured by the first switch
C19_Witness ==
    /\ JustSwitched /\ WasActive
    /\ arg # snap.ledgerFile.content.currentFlavor
    /\ \E i \in 1..Len(PersistedFiles) : PersistedFiles[i].exists
    /\ \E i \in 1..Len(PersistedFiles) : ~PersistedFiles[i].exists
    /\ targets # snap.targets

-----------------------------------------------------------------------------
\* the target holds what the source holds
ContainsSource(target, source) ==
    IF source.kind = "file" THEN target = source
    ELSE /\ target.kind = "dir"
         /\ \A k \in Kids : source.kids[k] # None => target.kids[k] = source.kids[k]

\* applyFlavor threw at mapping idx and the process exited
ApplyFailed == pc = "exited" /\ op = "switch" /\ failedAt = "apply"

(* C20: when applyFlavor fails at mapping k, the targets of the mappings   *)
(* before k keep the flavor content copied to them (nothing is rolled      *)
(* back), the persisted ledger's currentFlavor is what it was before the   *)
(* call, and .gitignore is not rewritten.                                  *)
C20_PartialApply ==
    ApplyFailed =>
        /\ \A i \in 1..(idx - 1) :
              pathExists(SourceOf(i)) => ContainsSource(TargetOf(i), SourceOf(i))
        /\ ledgerFile.content.currentFlavor = snap.ledgerFile.content.currentFlavor
        /\ gitignore = snap.gitignore

\* applyFlavor failed at the second mapping, after it had put the flavor's
\* content over the first target
C20_Witness ==
    /\ ApplyFailed /\ idx = 2
    /\ pathExists(SourceOf(1))
    /\ pathExists(BeforeOf(1))
    /\ TargetOf(1) # BeforeOf(1)
    /\ TargetOf(1) # baseline[config.mappings[1].target]

-----------------------------------------------------------------------------
\* init() has run and returned
Loaded == pc = "ready" /\ op = "none"

(* C21: loadState never fails the caller.  With no ledger file it yields   *)
(* the empty ledger; with a ledger file that cannot be read it warns and   *)
(* yields the empty ledger; with a readable ledger file it yields the      *)
(* stored currentFlavor and originalFiles.  Whenever the configuration     *)
(* loads, init() returns.                                                  *)
C21_LoadStateNeverFails ==
    /\ (pc # "new" /\ report # "InitializationFailed") => Loaded
    /\ Loaded =>
          /\ ~ledgerFile.exists =>
                (state = EmptyState /\ currentFlavor = Null /\ report = "none")
          /\ (ledgerFile.exists /\ ~ledgerFile.readable) =>
                (state = EmptyState /\ currentFlavor = Null /\ report = "stateWarning")
          /\ (ledgerFile.exists /\ ledgerFile.readable) =>
                /\ state = readJson(ledgerFile.content)
                /\ currentFlavor = ledgerFile.content.currentFlavor
                /\ report = "none"

\* init() returned with the warning, over a ledger file that is not JSON
C21_Witness ==
    /\ Loaded /\ report = "stateWarning"
    /\ ledgerFile = CorruptLedger
    /\ state = EmptyState

-----------------------------------------------------------------------------
\* the JSON object lacks a required key, or gives a mapping a type that is
\* neither 'file' nor 'directory'
FailsSchema(raw) ==
    \/ {"version", "flavors", "mappings"} \ raw.given # {}
    \/ \E f \in FlavorIds : "displayName" \notin raw.flavors[f].given
    \/ \E i \in 1..Len(raw.mappings) :
          \/ {"source", "target"} \ raw.mappings[i].given # {}
          \/ "type" \in raw.mappings[i].given /\ raw.mappings[i].type = "link"

ConfigBad == ~configFile.exists \/ ~configFile.parses \/ FailsSchema(configFile.data)

(* C25: if the configuration file is missing, is not parseable or fails    *)
(* schema validation, init() reports 'Initialization failed' and exits     *)
(* before the ledger is loaded, and targets, backup root, ledger file and  *)
(* .gitignore are as they were.                                            *)
C25_ConfigErrorAborts ==
    (pc # "new" /\ ConfigBad) =>
        /\ pc = "exited" /\ report = "InitializationFailed"
        /\ config = NoConfig
        /\ state = EmptyState /\ currentFlavor = Null
        /\ Disk = snap

\* init() failed on a configuration without mappings, over a ledger file
\* that names a flavor
C25_Witness ==
    /\ pc = "exited" /\ report = "InitializationFailed"
    /\ configFile.parses /\ "mappings" \notin configFile.data.given
    /\ ledgerFile.readable /\ ledgerFile.content.currentFlavor = "a"

\* the value of a key the file gives, or the default
Given(obj, key, value, default) == IF key \in obj.given THEN value ELSE default

(* C26: configuration loading applies the defaults to omitted optional     *)
(* fields: projectRoot './', a mapping's type 'file' and required true,    *)
(* requiredStructure {files: [], directories: []}, a flavor's active flag  *)
(* true; what the file gives is kept; and a configuration with only        *)
(* version, flavors and mappings loads.                                    *)
C26_ConfigDefaults ==
    LET raw == configFile.data
    IN  /\ Loaded =>
              /\ config.version = raw.version
              /\ config.projectRoot = Given(raw, "projectRoot", raw.projectRoot, "./")
              /\ \A f \in FlavorIds :
                    config.flavors[f].active =
                       Given(raw.flavors[f], "active", raw.flavors[f].active, TRUE)
              /\ Len(config.mappings) = Len(raw.mappings)
              /\ \A i \in 1..Len(raw.mappings) :
                    /\ config.mappings[i].source = raw.mappings[i].source
                    /\ config.mappings[i].target = raw.mappings[i].target
                    /\ config.mappings[i].type =
                          Given(raw.mappings[i], "type", raw.mappings[i].type, "file")
                    /\ config.mappings[i].required =
                          Given(raw.mappings[i], "required", raw.mappings[i].required, TRUE)
              /\ "requiredStructure" \notin raw.given =>
                    config.requiredStructure = [files |-> <<>>, directories |-> <<>>]
              /\ "requiredStructure" \in raw.given =>
                    /\ config.requiredStructure.files =
                          Given(raw.requiredStructure, "files", raw.requiredStructure.files, <<>>)
                    /\ config.requiredStructure.directories =
                          Given(raw.requiredStructure, "directories",
                                raw.requiredStructure.directories, <<>>)
        /\ (/\ pc # "new" /\ configFile.exists /\ configFile.parses
            /\ raw.given = {"version", "flavors", "mappings"}
            /\ ~FailsSchema(raw)) => Loaded

\* a configuration with only version, flavors and mappings, whose flavors
\* give only a displayName and whose mapping gives only source and target
C26_Witness ==
    /\ Loaded
    /\ configFile.data.given = {"version", "flavors", "mappings"}
    /\ \A f \in FlavorIds : configFile.data.flavors[f].given = {"displayName"}
    /\ Len(configFile.data.mappings) = 1
    /\ configFile.data.mappings[1].given = {"source", "target"}
    /\ config.mappings[1] = Mapping("s1", "t1", "file", TRUE)

-----------------------------------------------------------------------------
\* the path hashed by the i-th call, as it is on disk
Hashed(i) == targets[trail[i].flavor]

(* C23: getFileHash returns null when the path does not exist or is a      *)
(* directory, and otherwise the digest of the file's bytes: two files get  *)
(* equal hashes exactly when their contents are equal; the call changes    *)
(* no state.                                                               *)
C23_FileHash ==
    op = "hash" =>
        /\ \A i \in 1..Len(trail) :
              trail[i].hash = Null <=> Hashed(i).kind \in {"absent", "dir"}
        /\ \A i, j \in 1..Len(trail) :
              (Hashed(i).kind = "file" /\ Hashed(j).kind = "file") =>
                 (trail[i].hash = trail[j].hash <=> Hashed(i).data = Hashed(j).data)
        /\ Disk = snap /\ targets = baseline
        /\ state = EmptyState /\ currentFlavor = Null

\* two files of different content were hashed
C23_Witness ==
    /\ op = "hash" /\ Len(trail) = 2
    /\ Hashed(1).kind = "file" /\ Hashed(2).kind = "file"
    /\ Hashed(1).data # Hashed(2).data
    /\ trail[1].hash # trail[2].hash

-----------------------------------------------------------------------------
\* status or validate has just run with a flavor active
DriftChecked ==
    /\ pc \in {"ready", "exited"}
    /\ op \in {"status", "validateAll"}
    /\ currentFlavor # Null

\* what the active flavor provides for mapping i
ActiveSourceOf(i) == flavorsDir[currentFlavor].files[config.mappings[i].source]

\* target i is a file that still holds what the active flavor put there
AsApplied(i) ==
    /\ ActiveSourceOf(i).kind = "file"
    /\ targets[config.mappings[i].target] = ActiveSourceOf(i)

\* target i holds what the user wrote over it while the flavor was active
Edited(i) == targets[config.mappings[i].target] = File("u")

(* C22: drift detection.  While a flavor is active, validate and status    *)
(* flag a mapping target the user edited after the flavor was applied and  *)
(* do not flag a target whose content is what switchFlavor applied.        *)
C22_DriftDetection ==
    DriftChecked =>
        \A i \in 1..Len(config.mappings) :
            /\ Edited(i) => config.mappings[i].target \in modified
            /\ AsApplied(i) => config.mappings[i].target \notin modified

-----------------------------------------------------------------------------
\* the validate command has just run
Validated == op = "validateAll"

\* some flavor marked active has a structure problem
ActiveFlavorBroken ==
    \E f \in FlavorIds :
        config.flavors[f].active /\ StructureProblem(config, flavorsDir[f])

\* the flavors whose structure errors the command printed
Reported == { f \in FlavorIds :
                \E i \in 1..Len(errors) :
                    \E j \in 1..Len(validationFailure(config, flavorsDir[f])) :
                        errors[i] = validationFailure(config, flavorsDir[f])[j] }

(* C24: the validate command ends in failure (exit status 1) exactly when  *)
(* the flavors directory is missing or a flavor marked active fails        *)
(* structure validation; a broken flavor marked inactive does not make it  *)
(* fail; and it leaves targets, backups, ledger and .gitignore as they     *)
(* were.                                                                   *)
C24_ValidateCommand ==
    Validated =>
        /\ pc \in {"ready", "exited"}
        /\ pc = "exited" <=> (~flavorsRoot \/ ActiveFlavorBroken)
        /\ report = (IF pc = "exited" THEN "validationFailed" ELSE "validationsPassed")
        /\ errors # <<>> <=> ActiveFlavorBroken
        /\ Disk = snap

\* validate passed although the inactive flavor has no directory, with a
\* flavor active and files captured
C24_Witness ==
    /\ Validated /\ pc = "ready" /\ report = "validationsPassed"
    /\ ~config.flavors["c"].active /\ ~flavorsDir["c"].root
    /\ config.flavors["a"].active /\ config.flavors["b"].active
    /\ currentFlavor # Null /\ backupRoot

-----------------------------------------------------------------------------
\* interactiveSwitch has just run and switchFlavor has not been entered
Interacted == op = "interactive"

\* some flavor is marked active
SomeActive == \E f \in FlavorIds : config.flavors[f].active

(* C27: interactiveSwitch leaves targets, backup root, ledger and          *)
(* .gitignore as they were when no flavor is marked active, when the       *)
(* selected flavor is the current one, or when the operator declines; it   *)
(* goes on to switchFlavor(selected) only for a flavor that is marked      *)
(* active, differs from the current one and was confirmed.                 *)
C27_InteractiveSwitch ==
    Interacted =>
        /\ Disk = snap /\ state = readJson(snap.ledgerFile.content)
        /\ pc \in {"ready", "confirmed"}
        /\ report \in {"noActiveFlavors", "alreadyActive", "declined", "confirmed"}
        /\ ~SomeActive => report = "noActiveFlavors"
        /\ (SomeActive /\ arg = currentFlavor) => report = "alreadyActive"
        /\ pc = "confirmed" <=> report = "confirmed"
        /\ pc = "confirmed" =>
              /\ arg \in FlavorIds /\ config.flavors[arg].active
              /\ arg # currentFlavor

\* the operator picked the flavor that is already active, after a switch
C27_Witness ==
    /\ Interacted /\ pc = "ready" /\ report = "alreadyActive"
    /\ arg = "a" /\ currentFlavor = "a" /\ backupRoot /\ ledgerFile.exists

-----------------------------------------------------------------------------
\* initProject has just run
Initialised == op = "initProject"

(* C28: initProject is idempotent.  When the configuration file exists it  *)
(* reports 'already initialized' and changes no file, so a second call     *)
(* leaves the files the first call left; and the marker block is appended  *)
(* to .gitignore only when the file holds no marker.                       *)
C28_InitProjectIdempotent ==
    Initialised =>
        /\ snap.configFile.exists =>
              (report = "alreadyInitialized" /\ Project = snap)
        /\ Len(trail) >= 2 => Project = snap
        /\ HasMarker(snap.gitignore) => gitignore = snap.gitignore
        /\ report = "initialized" =>
              /\ gitignore.exists /\ markerCount(gitignore.text) >= 1
              /\ ~HasMarker(snap.gitignore) =>
                    gitignore.text = snap.gitignore.text \o InitBlock

\* a second initProject, after a first one that wrote the configuration and
\* appended the marker block to the user's .gitignore
C28_Witness ==
    /\ Initialised /\ Len(trail) = 2
    /\ trail[1].ok /\ report = "alreadyInitialized"
    /\ configFile = ConfigFileOf(DefaultConfig)
    /\ IsPrefix(<<"u", "NL", "NL", "M">>, gitignore.text)
    /\ markerCount(gitignore.text) = 1

-----------------------------------------------------------------------------
\* one step of a switchFlavor that has not failed, in the order of the code:
\* the checks, then restore or backup, then apply, the ledger, .gitignore
SwitchStep ==
    \/ /\ pc = "ready"
       /\ isConfigured(config, arg') /\ config.flavors[arg'].active
       /\ ~StructureProblem(config, flavorsDir[arg'])
       /\ idx' = 1
       /\ pc' = (IF currentFlavor = Null THEN "backup"
                 ELSE IF state.originalFiles # <<>> THEN "restore" ELSE "apply")
       /\ Disk' = Disk
    \/ /\ pc = "restore"
       /\ currentFlavor # Null
       /\ \/ pc' = "restore" /\ idx < Len(state.originalFiles) /\ idx' = idx + 1
          \/ pc' = "apply" /\ idx = Len(state.originalFiles) /\ idx' = 1
       /\ ledgerFile' = ledgerFile /\ backup' = backup /\ gitignore' = gitignore
    \/ /\ pc = "backup"
       /\ currentFlavor = Null
       /\ \/ pc' = "backup" /\ idx < Len(config.mappings) /\ idx' = idx + 1
          \/ pc' = "backupSave" /\ idx = Len(config.mappings)
       /\ Len(backups') = idx
       /\ targets' = targets /\ ledgerFile' = ledgerFile /\ gitignore' = gitignore
    \/ /\ pc = "backupSave"
       /\ pc' = "apply" /\ idx' = 1
       /\ ledgerFile'.exists
       /\ readJson(ledgerFile'.content).originalFiles = backups
       /\ ledgerFile'.content.currentFlavor = Null
       /\ targets' = targets /\ backup' = backup /\ gitignore' = gitignore
    \/ /\ pc = "apply"
       /\ \/ pc' = "apply" /\ idx < Len(config.mappings) /\ idx' = idx + 1
          \/ pc' = "switchSave" /\ idx = Len(config.mappings)
       /\ \A t \in Targets : t # config.mappings[idx].target => targets'[t] = targets[t]
       /\ ledgerFile' = ledgerFile /\ backup' = backup /\ gitignore' = gitignore
    \/ /\ pc = "switchSave"
       /\ pc' = "switchIgnore"
       /\ ledgerFile'.exists /\ ledgerFile'.content.currentFlavor = arg
       /\ currentFlavor' = arg
       /\ targets' = targets /\ backup' = backup /\ gitignore' = gitignore
    \/ /\ pc = "switchIgnore"
       /\ pc' = "ready" /\ report' = "switched"
       /\ gitignore'.exists /\ HasMarker(gitignore')
       /\ targets' = targets /\ backup' = backup /\ ledgerFile' = ledgerFile

(* C29: within a switchFlavor that does not fail the steps come in this    *)
(* order, none skipped or reordered: the configured/active checks and      *)
(* structure validation; the restore of the previous flavor, only if one   *)
(* is active; the capture of backups with its ledger save, only if none is *)
(* active; the apply of every mapping in configuration order; the ledger   *)
(* save with currentFlavor = id; the .gitignore sync.                      *)
C29_StepOrder ==
    [][(op' = "switch" /\ pc' # "exited") => SwitchStep]_vars

\* a switch from flavor a to flavor b that went through every step
C29_Witness ==
    /\ JustSwitched /\ WasActive
    /\ Len(trail) = 2 /\ SwitchOk(trail[1]) /\ trail[1].flavor = "a"
    /\ arg = "b" /\ ledgerFile.content.currentFlavor = "b"
    /\ Len(PersistedFiles) = Len(config.mappings)
    /\ HasMarker(gitignore)

-----------------------------------------------------------------------------
\* the only commands so far: a successful switch to one flavor, then a
\* successful switch to another
SwitchedFromTo ==
    /\ JustSwitched /\ WasActive
    /\ Len(trail) = 2 /\ SwitchOk(trail[1]) /\ SwitchOk(trail[2])
    /\ trail[1].flavor # trail[2].flavor

\* what the target of mapping i held before any flavor was applied
BaselineOf(i) == baseline[config.mappings[i].target]

(* C30: after switchFlavor(B) from a state with flavor A active, each      *)
(* target holds B's source content if B provides the source and otherwise  *)
(* its pre-flavor baseline (the original content, or nothing if it did not *)
(* exist); no target holds content that came from A.                       *)
C30_SwitchBetweenFlavors ==
    SwitchedFromTo =>
        \A i \in 1..Len(config.mappings) :
            TargetOf(i) = (IF pathExists(SourceOf(i)) THEN SourceOf(i) ELSE BaselineOf(i))

-----------------------------------------------------------------------------
\* the target of FileInfo i is as backupOriginalFiles recorded it without a
\* hash: absent then and absent now, or a directory then and a directory now
AsRecordedWithoutHash(i) ==
    LET info == state.originalFiles[i]
    IN  /\ info.hash = Undefined
        /\ \/ ~info.exists /\ targets[info.target].kind = "absent"
           \/ info.exists /\ targets[info.target].kind = "dir"

(* C38: checkStatus does not tag a target [MODIFIED] when its state is as  *)
(* recorded at first activation without a hash: a target that was absent   *)
(* before the switch and is still absent, or a directory target.           *)
C38_StatusWithoutHash ==
    (DriftChecked /\ op = "status") =>
        \A i \in 1..Len(state.originalFiles) :
            AsRecordedWithoutHash(i) => state.originalFiles[i].target \notin modified

-----------------------------------------------------------------------------
(* C31: after every successful switchFlavor or resetFlavor the ledger file *)
(* holds the in-memory ledger, currentFlavor and originalFiles, so that a  *)
(* fresh instance whose init() reads it resumes in the state the command   *)
(* ended in.                                                               *)
C31_LedgerPersisted ==
    (JustSwitched \/ JustReset) =>
        /\ ledgerFile.exists /\ ledgerFile.readable
        /\ loadState(ledgerFile) = state
        /\ loadState(ledgerFile).currentFlavor = currentFlavor
        /\ ~loadStateWarns(ledgerFile)

\* a first switch whose ledger records a target with a hash and a target
\* without one
C31_Witness ==
    /\ JustSwitched /\ ~WasActive
    /\ currentFlavor = "a"
    /\ \E i \in 1..Len(state.originalFiles) : state.originalFiles[i].hash = "h_o"
    /\ \E i \in 1..Len(state.originalFiles) : state.originalFiles[i].hash = Undefined
    /\ \E i \in 1..Len(PersistedFiles) : "hash" \notin DOMAIN PersistedFiles[i]

-----------------------------------------------------------------------------
\* the only commands so far: two successful switches to the same flavor
SwitchedTwice ==
    /\ JustSwitched /\ WasActive
    /\ Len(trail) = 2 /\ SwitchOk(trail[1]) /\ SwitchOk(trail[2])
    /\ trail[1].flavor = trail[2].flavor

\* no mapping has a directory as its target or as its source
FileTargets ==
    \A i \in 1..Len(config.mappings) :
        BaselineOf(i).kind # "dir" /\ SourceOf(i).kind # "dir"

(* C37: switchFlavor(A) while A is already active is idempotent for file   *)
(* targets: targets, ledger (currentFlavor and originalFiles), backup root *)
(* and .gitignore after the second call are what they were after the      *)
(* first.                                                                  *)
C37_SwitchIdempotent ==
    (SwitchedTwice /\ FileTargets) => Disk = snap

-----------------------------------------------------------------------------
\* init() has just returned on this instance
InitReturned == pc = "ready" /\ op = "none"

(* C36: after every init() call on a FlavorSwitcher instance, also a       *)
(* second init() on an instance that switched to a flavor and then finds   *)
(* the ledger file missing or corrupt, the in-memory currentFlavor equals  *)
(* state.currentFlavor; the two disagree in no reachable state.            *)
C36_CurrentFlavorAgrees ==
    /\ InitReturned => currentFlavor = state.currentFlavor
    /\ currentFlavor = state.currentFlavor

-----------------------------------------------------------------------------
\* the FileInfo restoreOriginalFiles is at says the target existed, and the
\* backup root holds no copy of it
BackupMissing ==
    /\ state.originalFiles[idx].exists
    /\ ~pathExists(backup[state.originalFiles[idx].target])

\* the FileInfo restoreOriginalFiles is at says the target did not exist, and
\* it does not exist now
AlreadyAbsent ==
    /\ ~state.originalFiles[idx].exists
    /\ ~pathExists(targets[state.originalFiles[idx].target])

\* restoreOriginalFiles is called on an empty originalFiles
RestoreOfNothing ==
    /\ pc = "ready" /\ op' \in {"switch", "reset"} /\ pc' # "exited"
    /\ currentFlavor # Null /\ state.originalFiles = <<>>

(* C32: during restoreOriginalFiles a target whose FileInfo has            *)
(* exists = true but whose backup is missing from the backup root is left  *)
(* untouched (no copy, no delete, no error), and so is a target with       *)
(* exists = false that is already absent; on an empty originalFiles the    *)
(* whole restore does nothing.                                             *)
C32_RestoreSkips ==
    [][/\ (pc = "restore" /\ (BackupMissing \/ AlreadyAbsent)) =>
              /\ targets' = targets /\ backup' = backup /\ backupRoot' = backupRoot
              /\ pc' # "exited"
       /\ RestoreOfNothing =>
              /\ pc' \in {"apply", "resetSave"}
              /\ targets' = targets /\ backup' = backup /\ backupRoot' = backupRoot
      ]_vars

\* a reset that has passed a flavor file whose backup is gone, and left it
C32_Witness ==
    /\ op = "reset" /\ pc = "restore" /\ idx = 2
    /\ state.originalFiles[1].exists
    /\ ~pathExists(backup[state.originalFiles[1].target])
    /\ targets[state.originalFiles[1].target] = File("a")
    /\ targets = snap.targets

-----------------------------------------------------------------------------
\* the target applyFlavor is at
ApplyTarget == config.mappings[idx].target

\* applyFlavor is about to copy a source over a target that exists and that
\* held content before any flavor was applied
AboutToOverwrite ==
    /\ pc = "apply"
    /\ pathExists(SourceOf(idx))
    /\ pathExists(targets[ApplyTarget])
    /\ ~copyFails(SourceOf(idx), targets[ApplyTarget])
    /\ pathExists(baseline[ApplyTarget])

(* C34: no data loss on apply.  For every ledger init() can load, also one *)
(* that names a flavor and holds no FileInfo, and one that is corrupt and  *)
(* is replaced by the empty ledger while flavor files are in place,        *)
(* applyFlavor overwrites an existing target only when the backup root     *)
(* holds a copy of that target's pre-flavor content at that moment.        *)
C34_NoDataLossOnApply ==
    AboutToOverwrite => backup[ApplyTarget] = baseline[ApplyTarget]

-----------------------------------------------------------------------------
\* the ledger file holds a FileInfo for target t
Recorded(t) == \E i \in 1..Len(PersistedFiles) : PersistedFiles[i].target = t

(* C35: whenever a flavor is active, every mapping target of the           *)
(* configuration in force has a FileInfo in the ledger's originalFiles,    *)
(* so that resetFlavor can restore or remove it; also when mappings were   *)
(* added to the configuration between two switchFlavor invocations while   *)
(* a flavor was active.                                                    *)
C35_EveryTargetRecorded ==
    (JustSwitched /\ currentFlavor # Null) =>
        \A i \in 1..Len(config.mappings) : Recorded(config.mappings[i].target)

-----------------------------------------------------------------------------
(* C33: BrandSwitcher (switchBrand/resetBrand) and FlavorSwitcher          *)
(* (switchFlavor/resetFlavor) are equivalent up to naming: from            *)
(* corresponding files, configuration and ledger every sequence of switch  *)
(* and reset calls gives the same outcomes and corresponding targets,      *)
(* backups and ledger, also when a mapping target is an existing directory *)
(* at first activation.  Stated as a refinement: every step FlavorSwitcher *)
(* takes is a step BrandSwitcher takes from the same state.                *)
C33_BrandEquivalent == [][NextBrand]_vars

====
